---------------------------- MODULE Spec2Model ----------------------------
(***************************************************************************)
(* Business logbook dashboard: the filter engine (filter_data) and the     *)
(* metric block of main(), modelled from src/app.py, src/src/data_loader.py*)
(* and src/src/data_processor.py.                                          *)
(*                                                                         *)
(* Conventions.                                                            *)
(*  - A pandas DataFrame is a record [none, cols, rows]: none says the     *)
(*    Python value is None, cols is the set of column labels and rows the  *)
(*    sequence of rows (records).  A cell of a column that the frame does  *)
(*    not have is the placeholder NoCol and is never read.                 *)
(*  - A text that the code inspects character by character (client names,  *)
(*    currency cells, date cells) is a sequence of one-character strings.  *)
(*  - A Python float is an exact rational [n, d] (d > 0, lowest terms):    *)
(*    the model decides the arithmetic, not the rounding.                  *)
(*  - A date is <<year, month, day>>; NaT is the missing date.             *)
(***************************************************************************)
EXTENDS Integers, Sequences, FiniteSets, TLC

VARIABLES
    pc,                 \* position of the run
    sheet,              \* the Google Sheet: the four worksheets as fetched
    logbook_df,         \* load_sheets_data's results
    clienti_df,
    compensi_df,
    mapping_df,
    logbook_processed,  \* process_logbook(logbook_df) with MeseFormattato
    sel,                \* the sidebar widgets' values
    kpi,                \* the metric block's locals
    f_df,               \* filter_data called on its own: the caller's table
    f_args,             \*   the arguments of the call
    f_out,              \*   the value returned
    cur                 \* a currency conversion on its own: amount, text, value

vars == <<pc, sheet, logbook_df, clienti_df, compensi_df, mapping_df,
          logbook_processed, sel, kpi, f_df, f_args, f_out, cur>>

mainVars == <<sheet, logbook_df, clienti_df, compensi_df, mapping_df,
              logbook_processed, sel, kpi>>

filterVars == <<f_df, f_args, f_out>>

currencyVars == <<cur>>

-----------------------------------------------------------------------------
(* Generic helpers *)

Range(s) == {s[i] : i \in DOMAIN s}

RECURSIVE SeqsUpTo(_, _)
\* every sequence over S of length at most n
SeqsUpTo(S, n) ==
    IF n = 0 THEN {<<>>}
    ELSE LET shorter == SeqsUpTo(S, n - 1)
         IN  shorter \cup {Append(q, x) : q \in {r \in shorter : Len(r) = n - 1}, x \in S}

RECURSIVE RowsAt(_, _, _)
\* the rows of `rows` at the indices in `keep`, from index i on, in input order
RowsAt(rows, keep, i) ==
    IF i > Len(rows) THEN <<>>
    ELSE (IF i \in keep THEN <<rows[i]>> ELSE <<>>) \o RowsAt(rows, keep, i + 1)

-----------------------------------------------------------------------------
(* Numbers: a Python float as an exact rational *)

Abs(x) == IF x < 0 THEN -x ELSE x

RECURSIVE GCD(_, _)
GCD(a, b) == IF b = 0 THEN a ELSE GCD(b, a % b)

\* n/d in lowest terms with a positive denominator (d # 0)
Rat(n, d) ==
    LET g == GCD(Abs(n), Abs(d))
        sgn == IF d < 0 THEN -1 ELSE 1
    IN  [n |-> sgn * (n \div g), d |-> sgn * (d \div g)]

Zero == [n |-> 0, d |-> 1]
Num(k) == [n |-> k, d |-> 1]

RAdd(a, b) == Rat(a.n * b.d + b.n * a.d, a.d * b.d)
RSub(a, b) == Rat(a.n * b.d - b.n * a.d, a.d * b.d)
\* cross-reduced first, so that the intermediate products stay small
RMul(a, b) ==
    LET x == Rat(a.n, b.d)
        y == Rat(b.n, a.d)
    IN  Rat(x.n * y.n, x.d * y.d)
\* b # 0
RDiv(a, b) == RMul(a, Rat(b.d, b.n))

RECURSIVE SumSeq(_)
\* Series.sum(): 0 for an empty series
SumSeq(s) == IF s = <<>> THEN Zero ELSE RAdd(s[1], SumSeq(Tail(s)))

-----------------------------------------------------------------------------
(* Texts: sequences of one-character strings *)

Digits == <<"0", "1", "2", "3", "4", "5", "6", "7", "8", "9">>

IsDigit(c) == \E i \in DOMAIN Digits : Digits[i] = c
DigitVal(c) == (CHOOSE i \in DOMAIN Digits : Digits[i] = c) - 1

UpperCase == <<"A", "B", "C", "D", "E", "F", "G", "H", "I", "J", "K", "L", "M",
               "N", "O", "P", "Q", "R", "S", "T", "U", "V", "W", "X", "Y", "Z">>
LowerCase == <<"a", "b", "c", "d", "e", "f", "g", "h", "i", "j", "k", "l", "m",
               "n", "o", "p", "q", "r", "s", "t", "u", "v", "w", "x", "y", "z">>

\* str.lower() of one character
Lower(c) ==
    IF \E i \in DOMAIN UpperCase : UpperCase[i] = c
    THEN LowerCase[CHOOSE i \in DOMAIN UpperCase : UpperCase[i] = c]
    ELSE c

\* a cell that is not a str (None, NaN, a number)
NotAString == <<"<not a str>">>

RemoveChar(s, c) == SelectSeq(s, LAMBDA x : x # c)
ReplaceChar(s, c, by) == [i \in DOMAIN s |-> IF s[i] = c THEN by ELSE s[i]]
HasChar(s, c) == \E i \in DOMAIN s : s[i] = c

RECURSIVE LStrip(_)
LStrip(s) == IF s # <<>> /\ s[1] = " " THEN LStrip(Tail(s)) ELSE s
RECURSIVE RStrip(_)
RStrip(s) == IF s # <<>> /\ s[Len(s)] = " " THEN RStrip(SubSeq(s, 1, Len(s) - 1)) ELSE s
\* str.strip()
Strip(s) == RStrip(LStrip(s))

RECURSIVE DigitsToInt(_)
\* int() of a sequence of digits; 0 for none
DigitsToInt(s) ==
    IF s = <<>> THEN 0 ELSE 10 * DigitsToInt(SubSeq(s, 1, Len(s) - 1)) + DigitVal(s[Len(s)])

RECURSIVE Pow10(_)
Pow10(k) == IF k = 0 THEN 1 ELSE 10 * Pow10(k - 1)

\* float(s) for texts of digits, '.', and a leading sign (the texts of the
\* model hold no exponent, no 'inf'/'nan', no '_'): [ok, val]; ok = FALSE is
\* ValueError
PyFloat(s) ==
    LET signed == s # <<>> /\ s[1] \in {"-", "+"}
        body == IF signed THEN Tail(s) ELSE s
        dots == {i \in DOMAIN body : body[i] = "."}
        digs == RemoveChar(body, ".")
        wellformed == /\ \A i \in DOMAIN body : IsDigit(body[i]) \/ body[i] = "."
                      /\ Cardinality(dots) <= 1
                      /\ digs # <<>>
        decimals == IF dots = {} THEN 0 ELSE Len(body) - (CHOOSE i \in dots : TRUE)
        magnitude == Rat(DigitsToInt(digs), Pow10(decimals))
    IN  IF wellformed
        THEN [ok |-> TRUE,
              val |-> IF signed /\ s[1] = "-" THEN RSub(Zero, magnitude) ELSE magnitude]
        ELSE [ok |-> FALSE, val |-> Zero]

-----------------------------------------------------------------------------
(* Dates *)

NaT == <<0, 0, 0>>

notna(d) == d # NaT

\* a <= b on timestamps; a comparison with NaT is False
DateLE(a, b) ==
    /\ a # NaT
    /\ b # NaT
    /\ \/ a[1] < b[1]
       \/ a[1] = b[1] /\ a[2] < b[2]
       \/ a[1] = b[1] /\ a[2] = b[2] /\ a[3] <= b[3]

-----------------------------------------------------------------------------
(* DataFrames *)

NoCol == "<no column>"

NoneDF == [none |-> TRUE, cols |-> {}, rows |-> <<>>]

\* pd.DataFrame(): no column, no row
EmptyDataFrame == [none |-> FALSE, cols |-> {}, rows |-> <<>>]

\* DataFrame.empty: an axis of length 0
IsEmpty(df) == df.cols = {} \/ Len(df.rows) = 0

\* an optional list argument: None, or a list of which only membership,
\* truthiness and len() are used
NoneList == [given |-> FALSE, items |-> {}]
List(S) == [given |-> TRUE, items |-> S]

\* `x and len(x) > 0`
Active(l) == l.given /\ l.items # {}

-----------------------------------------------------------------------------
(* load_sheets_data and convert_eu_to_number, src/src/data_loader.py *)

\* mutant: the '.' of the thousands are kept
convert_eu_to_number_KeepDots(amount_str) ==
    IF amount_str = NotAString
    THEN Zero
    ELSE LET clean_str == Strip(RemoveChar(amount_str, "€"))
             european == IF HasChar(clean_str, ",")
                         THEN ReplaceChar(clean_str, ",", ".")
                         ELSE clean_str
             parsed == PyFloat(european)
         IN  IF parsed.ok THEN parsed.val ELSE Zero

convert_eu_to_number(amount_str) ==
    IF amount_str = NotAString
    THEN Zero
    ELSE LET clean_str == Strip(RemoveChar(amount_str, "€"))
             european == IF HasChar(clean_str, ",")
                         THEN ReplaceChar(RemoveChar(clean_str, "."), ",", ".")
                         ELSE clean_str
             parsed == PyFloat(european)
         IN  IF parsed.ok THEN parsed.val ELSE Zero

\* lines 197-203, one cell of a compensation column: '' is NaN, the
\* characters of [€.,\s] are removed, to_numeric(errors='coerce'), NaN is 0
CompensoCell(text) ==
    IF text = <<>>
    THEN Zero
    ELSE LET digits == SelectSeq(text, LAMBDA c : c \notin {"€", ".", ",", " "})
             parsed == PyFloat(digits)
         IN  IF parsed.ok THEN parsed.val ELSE Zero

\* lines 133-155: the rows of the built-in table, each <<first cell, second cell>>
mapping_data ==
    <<<<<<"A", "C", "O", "S", " ", "M", "E", "D", "I", "C", "A">>,
       <<"A", "c", "o", "s", " ", "M", "e", "d", "i", "c", "a">>>>,
     <<<<"B", "o", "v", "o", " ", "G", "a", "r", "d", "e", "n", " ", "S", "r", "l">>,
       <<"F", "l", "o", "b", "f", "l", "o", "w", "e", "r">>>>,
     <<<<"B", "u", "s", "i", "n", "e", "s", "s", " ", "G", "a", "t", "e", "s", " ", "S", ".", "r", ".", "l", ".">>,
       <<"B", "u", "s", "i", "n", "e", "s", "s", " ", "G", "a", "t", "e", "s">>>>,
     <<<<"C", "A", "R", "L", " ", "Z", "E", "I", "S", "S", " ", "V", "I", "S", "I", "O", "N", " ", "I", "T", "A", "L", "I", "A", " ", "S", ".", "P", ".", "A", ".">>,
       <<"Z", "e", "i", "s", "s">>>>,
     <<<<"C", "A", "R", "O", "V", "I", "L", "L", "A", " ", "P", "I", "E", "R", "L", "U", "I", "G", "I", " ", "(", "S", "O", "N", "I", "T", ")">>,
       <<"S", "o", "n", "i", "t">>>>,
     <<<<"C", "i", "s", "a", " ", "S", ".", "p", ".", "a", ".">>,
       <<"C", "i", "s", "a">>>>,
     <<<<"C", "o", "L", "i", "b", "r", "ì", " ", "S", "y", "s", "t", "e", "m", " ", "S", ".", "p", ".", "A", ".">>,
       <<"C", "o", "l", "i", "b", "r", "ì">>>>,
     <<<<"C", "U", "R", "C", "A", "P", "I", "L", " ", "D", "I", " ", "C", "A", "R", "L", "U", "C", "C", "I", " ", "D", "O", "N", "A", "T", "O", " ", "S", "N", "C">>,
       <<"C", "u", "r", "c", "a", "p", "i", "l">>>>,
     <<<<"E", "l", "e", "t", "t", "r", "o", "c", "a", "s", "a", " ", "S", ".", "r", ".", "l", ".">>,
       <<"E", "l", "e", "t", "t", "r", "o", "c", "a", "s", "a">>>>,
     <<<<"F", "I", "D", "E", "L", "I", "A", " ", "-", " ", "S", ".", "R", ".", "L", ".">>,
       <<"C", "a", "s", "a", "v", "i", "v", "a">>>>,
     <<<<"F", "L", "O", ".", "M", "A", "R", ".", " ", "S", ".", "R", ".", "L", ".", "S", ".">>,
       <<"F", "l", "o", "m", "a", "r">>>>,
     <<<<"F", "r", "a", "t", "e", "l", "l", "i", " ", "B", "o", "n", "e", "l", "l", "a">>,
       <<"F", "r", "a", "t", "e", "l", "l", "i", " ", "B", "o", "n", "e", "l", "l", "a">>>>,
     <<<<"H", "O", "M", "I", "T", " ", "S", ".", "R", ".", "L", ".">>,
       <<"D", "i", "v", "a", "n", "i", " ", "S", "t", "o", "r", "e">>>>,
     <<<<"N", "O", "W", "A", "V", "E">>,
       <<"N", "o", "w", "a", "v", "e">>>>,
     <<<<"P", "A", "T", "R", "I", "Z", "I", "O", " ", "B", "R", "E", "S", "E", "G", "H", "E", "L", "L", "O">>,
       <<"P", "a", "t", "r", "i", "z", "i", "o", " ", "B", "r", "e", "s", "e", "g", "h", "e", "l", "l", "o">>>>,
     <<<<"P", "O", "L", "O", "N", "O", "R", "D", " ", "A", "D", "E", "S", "T", "E">>,
       <<"P", "o", "l", "o", "n", "o", "r", "d">>>>,
     <<<<"S", "A", "I", "E", "T">>,
       <<"S", "a", "i", "e", "t">>>>,
     <<<<"S", "A", "N", " ", "P", "I", "E", "T", "R", "O", " ", "L", "A", "B">>,
       <<"S", "a", "n", " ", "P", "i", "e", "t", "r", "o", " ", "L", "a", "b">>>>,
     <<<<"S", "i", "v", "e", "c", " ", "S", "r", "l">>,
       <<"P", "a", "s", "s", "i", "o", "n", "e", " ", "F", "i", "o", "r", "i">>>>,
     <<<<"S", "T", "I", "L", "M", "A", "R", " ", "D", "I", " ", "M", "A", "R", "I", "S", "E", " ", "R", "I", "C", "C", "A", "R", "D", "O", " ", "(", "C", "O", "C", "C", "O", "L", "E", ")">>,
       <<"C", "o", "c", "c", "o", "l", "e">>>>,
     <<<<"T", "O", "M", "A", "I", "N", "O", " ", "S", "R", "L">>,
       <<"T", "o", "m", "a", "i", "n", "o">>>>>>

\* line 156: pd.DataFrame(mapping_data, columns=["Cliente", "Cliente Map"])
DefaultMapping ==
    [none |-> FALSE,
     cols |-> {"Cliente", "Cliente Map"},
     rows |-> [i \in DOMAIN mapping_data |->
                  [Cliente |-> mapping_data[i][1], Cliente_Map |-> mapping_data[i][2]]]]

\* mutant: the column is dropped and every row is kept
PrepareClienti_AllRows(df) ==
    IF "Actual" \in df.cols
    THEN [df EXCEPT !.cols = df.cols \ {"Actual"},
                    !.rows = [i \in DOMAIN df.rows |-> [df.rows[i] EXCEPT !.Actual = NoCol]]]
    ELSE df

\* lines 178-182: only the rows marked 'Actual', and the column dropped
PrepareClienti(df) ==
    IF "Actual" \in df.cols
    THEN [df EXCEPT !.cols = df.cols \ {"Actual"},
                    !.rows = LET actual == SelectSeq(df.rows, LAMBDA r : r.Actual = "Actual")
                             IN  [i \in DOMAIN actual |-> [actual[i] EXCEPT !.Actual = NoCol]]]
    ELSE df

\* lines 185-206: the collaborator column (also under its misspelt header)
\* becomes the index and every other column is made numeric
PrepareCompensi(df) ==
    LET renamed == IF "Collaboaratore" \in df.cols
                   THEN [df EXCEPT !.cols = (df.cols \ {"Collaboaratore"}) \cup {"Collaboratore"}]
                   ELSE df
    IN  IF "Collaboratore" \in renamed.cols
        THEN [renamed EXCEPT
                !.cols = renamed.cols \ {"Collaboratore"},
                !.index = "Collaboratore",
                !.rows = [i \in DOMAIN renamed.rows |->
                            [renamed.rows[i] EXCEPT
                               !.cells = [m \in DOMAIN renamed.rows[i].cells |->
                                             CompensoCell(renamed.rows[i].cells[m])]]]]
        ELSE renamed

\* the four frames load_sheets_data returns for the Google Sheet sh
load_sheets_data(sh) ==
    IF ~sh.reachable
    THEN [logbook_df |-> NoneDF, clienti_df |-> NoneDF,
          compensi_df |-> NoneDF, mapping_df |-> NoneDF]
    ELSE LET mapping == IF sh.Mappa.none THEN DefaultMapping ELSE sh.Mappa
         IN  IF sh.Logbook.none \/ sh.Clienti.none \/ sh.Compensi.none
             THEN [logbook_df |-> sh.Logbook, clienti_df |-> sh.Clienti,
                   compensi_df |-> sh.Compensi, mapping_df |-> mapping]
             ELSE [logbook_df |-> sh.Logbook,
                   clienti_df |-> PrepareClienti(sh.Clienti),
                   compensi_df |-> PrepareCompensi(sh.Compensi),
                   mapping_df |-> mapping]

-----------------------------------------------------------------------------
(* format_currency, src/src/utils.py *)

\* Python's None where a number is expected
NoneNumber == [none |-> TRUE]

RECURSIVE IntToDigits(_)
\* the decimal digits of a natural number
IntToDigits(n) ==
    IF n < 10 THEN <<Digits[n + 1]>>
    ELSE IntToDigits(n \div 10) \o <<Digits[(n % 10) + 1]>>

RECURSIVE Grouped(_)
\* the ',' option of a format specification: a ',' before every three digits
Grouped(ds) ==
    IF Len(ds) <= 3 THEN ds
    ELSE Grouped(SubSeq(ds, 1, Len(ds) - 3)) \o <<",">> \o SubSeq(ds, Len(ds) - 2, Len(ds))

\* the hundredths of a number rounded to two decimals, ties to even
Hundredths(x) ==
    LET whole == Abs(x.n) \div x.d
        frac == Abs(x.n) % x.d
        q == 100 * whole + (100 * frac) \div x.d
        r == (100 * frac) % x.d
    IN  IF 2 * r > x.d \/ (2 * r = x.d /\ q % 2 = 1) THEN q + 1 ELSE q

\* f"{value:,.2f}"
Format_c2f(value) ==
    LET h == Hundredths(value)
        sign == IF value.n < 0 /\ h # 0 THEN <<"-">> ELSE <<>>
    IN  sign \o Grouped(IntToDigits(h \div 100))
             \o <<".", Digits[((h % 100) \div 10) + 1], Digits[(h % 10) + 1]>>

\* mutant: the separators are not exchanged
format_currency_NoSwap(value) ==
    IF value = NoneNumber THEN <<"0", ",", "0", "0", " ", "€">>
    ELSE Format_c2f(value) \o <<" ", "€">>

\* lines 87-100; a value that cannot be formatted (None) gives "0,00 €"
format_currency(value) ==
    IF value = NoneNumber
    THEN <<"0", ",", "0", "0", " ", "€">>
    ELSE ReplaceChar(ReplaceChar(ReplaceChar(Format_c2f(value) \o <<" ", "€">>,
                                             ",", "X"),
                                 ".", ","),
                     "X", ".")

-----------------------------------------------------------------------------
(* filter_data, src/src/data_processor.py *)

\* `start_date and end_date`: None is the only falsy period end
NoDate == NaT

\* boolean indexing: a new frame with the rows that pass, in order
Keep(df, kept) == [df EXCEPT !.rows = kept]

\* mutant: the end of the period is exclusive
FilterByDate_ExclusiveEnd(df, start_date, end_date) ==
    IF start_date # NoDate /\ end_date # NoDate /\ "Data" \in df.cols
    THEN Keep(df, SelectSeq(df.rows, LAMBDA r : /\ notna(r.Data)
                             /\ DateLE(start_date, r.Data)
                             /\ DateLE(r.Data, end_date)
                             /\ r.Data # end_date))
    ELSE df

FilterByDate(df, start_date, end_date) ==
    IF start_date # NoDate /\ end_date # NoDate /\ "Data" \in df.cols
    THEN Keep(df, SelectSeq(df.rows, LAMBDA r : /\ notna(r.Data)
                             /\ DateLE(start_date, r.Data)
                             /\ DateLE(r.Data, end_date)))
    ELSE df

FilterByCollaborators(df, collaborators) ==
    IF Active(collaborators) /\ "Nome" \in df.cols
    THEN Keep(df, SelectSeq(df.rows, LAMBDA r : r.Nome \in collaborators.items))
    ELSE df

\* mutant: only the primary field is probed
FilterByDepartments_NoFallback(df, departments) ==
    IF Active(departments)
    THEN IF "Reparto" \in df.cols
         THEN Keep(df, SelectSeq(df.rows, LAMBDA r : r.Reparto \in departments.items))
         ELSE df
    ELSE df

FilterByDepartments(df, departments) ==
    IF Active(departments)
    THEN IF "Reparto" \in df.cols
         THEN Keep(df, SelectSeq(df.rows, LAMBDA r : r.Reparto \in departments.items))
         ELSE IF "Reparto1" \in df.cols
              THEN Keep(df, SelectSeq(df.rows, LAMBDA r : r.Reparto1 \in departments.items))
              ELSE df
    ELSE df

FilterByMacro(df, macro_activities) ==
    IF Active(macro_activities) /\ "Macro attività" \in df.cols
    THEN Keep(df, SelectSeq(df.rows, LAMBDA r : r.Macro_attivita \in macro_activities.items))
    ELSE df

\* mutant: the client selector is not applied
FilterByClients_Ignored(df, clients) == df

FilterByClients(df, clients) ==
    IF Active(clients) /\ "Cliente" \in df.cols
    THEN Keep(df, SelectSeq(df.rows, LAMBDA r : r.Cliente \in clients.items))
    ELSE df

\* mutant: an empty table gives None
ResultForEmptyInput_None == NoneDF

\* line 123: `return pd.DataFrame()`
ResultForEmptyInput == EmptyDataFrame

filter_data(df, start_date, end_date, collaborators, departments, macro_activities, micro_activities, clients) ==
    IF df.none \/ IsEmpty(df)
    THEN ResultForEmptyInput
    ELSE FilterByClients(
           FilterByMacro(
             FilterByDepartments(
               FilterByCollaborators(
                 FilterByDate(df, start_date, end_date),
                 collaborators),
               departments),
             macro_activities),
           clients)

\* mutant: the rows are dropped from the caller's frame itself
CallerFrameAfterFilter_InPlace(df, filtered) ==
    IF df.none \/ filtered.none THEN df ELSE [df EXCEPT !.rows = filtered.rows]

\* line 126, `filtered_df = df.copy()`, and every later step rebinding
\* filtered_df to a new frame: the caller's frame is what it was
CallerFrameAfterFilter(df, filtered) == df

-----------------------------------------------------------------------------
(* process_logbook, src/src/data_processor.py *)

\* a cell that holds Python's None
PyNone == "<None>"

RECURSIVE Split(_, _)
\* str.split(sep)
Split(s, sep) ==
    IF ~HasChar(s, sep)
    THEN <<s>>
    ELSE LET i == CHOOSE k \in DOMAIN s : s[k] = sep /\ \A j \in 1..(k - 1) : s[j] # sep
         IN  <<SubSeq(s, 1, i - 1)>> \o Split(SubSeq(s, i + 1, Len(s)), sep)

AllDigits(s) == s # <<>> /\ \A i \in DOMAIN s : IsDigit(s[i])

IsLeap(y) == (y % 4 = 0 /\ y % 100 # 0) \/ y % 400 = 0

DaysInMonth(y, m) ==
    IF m = 2 THEN (IF IsLeap(y) THEN 29 ELSE 28)
    ELSE IF m \in {4, 6, 9, 11} THEN 30 ELSE 31

\* line 29: pd.to_datetime(cell, format='%d/%m/%Y', errors='coerce'): one
\* or two digits of day, of month, four of year, a date of the calendar;
\* anything else is NaT
to_datetime_dmy(cell) ==
    LET parts == Split(cell, "/")
    IN  IF /\ cell # NotAString
           /\ Len(parts) = 3
           /\ AllDigits(parts[1]) /\ Len(parts[1]) <= 2
           /\ AllDigits(parts[2]) /\ Len(parts[2]) <= 2
           /\ AllDigits(parts[3]) /\ Len(parts[3]) = 4
        THEN LET d == DigitsToInt(parts[1])
                 m == DigitsToInt(parts[2])
                 y == DigitsToInt(parts[3])
             IN  IF y >= 1 /\ m \in 1..12 /\ d \in 1..DaysInMonth(y, m)
                 THEN <<y, m, d>>
                 ELSE NaT
        ELSE NaT

\* lines 29 and 38: the candidate formats, in the order they are tried
DateFormats ==
    <<[sep |-> "/", order |-> <<"d", "m", "Y">>],
      [sep |-> "-", order |-> <<"Y", "m", "d">>],
      [sep |-> "-", order |-> <<"d", "m", "Y">>],
      [sep |-> "/", order |-> <<"m", "d", "Y">>],
      [sep |-> "/", order |-> <<"Y", "m", "d">>]>>

\* pd.to_datetime(cell, format=fmt, errors='coerce') for a candidate format
to_datetime_fmt(cell, fmt) ==
    LET parts == Split(cell, fmt.sep)
        at(f) == parts[CHOOSE k \in 1..3 : fmt.order[k] = f]
    IN  IF /\ cell # NotAString
           /\ Len(parts) = 3
           /\ \A k \in 1..3 :
                  /\ AllDigits(parts[k])
                  /\ IF fmt.order[k] = "Y" THEN Len(parts[k]) = 4 ELSE Len(parts[k]) <= 2
        THEN LET d == DigitsToInt(at("d"))
                 m == DigitsToInt(at("m"))
                 y == DigitsToInt(at("Y"))
             IN  IF y >= 1 /\ m \in 1..12 /\ d \in 1..DaysInMonth(y, m)
                 THEN <<y, m, d>>
                 ELSE NaT
        ELSE NaT

RECURSIVE FirstFormatThatParses(_, _)
\* the date under the first of the formats k, k+1, ... that parses the cell
FirstFormatThatParses(cell, k) ==
    IF k > Len(DateFormats) THEN NaT
    ELSE IF to_datetime_fmt(cell, DateFormats[k]) # NaT THEN to_datetime_fmt(cell, DateFormats[k])
    ELSE FirstFormatThatParses(cell, k + 1)

\* mutant: the loop over the other formats fills the dates the first left out
AfterOtherFormats_Assigned(first, cell) ==
    IF first # NaT THEN first ELSE FirstFormatThatParses(cell, 2)

\* lines 32-46, the cell of the column Data after the loop over the other
\* formats, first being what line 29 gave
AfterOtherFormats(first, cell) == first

\* lines 27-50, the Data cell of one row.  The loop over the other formats
\* (lines 38-46) assigns through processed_df.loc[~valid_dates][mask, 'Data'],
\* that is into a temporary copy, inside `try: ... except Exception: pass`:
\* the column keeps what the first format gave.
ParsedDate(df, r) ==
    IF "Data" \in df.cols
    THEN AfterOtherFormats(to_datetime_dmy(r.Data), r.Data)
    ELSE NaT

\* lines 60-65: pd.to_numeric(errors='coerce') then fillna(0)
ParsedMinutes(df, r) ==
    IF "Minuti Impiegati" \in df.cols /\ r.Minuti_Impiegati # NotAString
    THEN LET parsed == PyFloat(r.Minuti_Impiegati)
         IN  IF parsed.ok THEN parsed.val ELSE Zero
    ELSE Zero

\* Series.dt.strftime('%B').str.lower() where the Italian locale that app.py
\* 36-42 asks for is not installed
month_name_lower ==
    <<"january", "february", "march", "april", "may", "june",
      "july", "august", "september", "october", "november", "december">>

\* lines 56-58 and 67-71: the column Mese is rewritten from the dates only
\* when a cell of it is null, and a worksheet's cells are texts, never null:
\* it is rewritten only when the worksheet has no such column
ParsedMese(df, r) ==
    IF "Mese" \in df.cols THEN r.Mese
    ELSE IF ParsedDate(df, r) = NaT THEN PyNone
    ELSE month_name_lower[ParsedDate(df, r)[2]]

RequiredColumns ==
    {"Nome", "Data", "Mese", "Giorno", "Reparto1", "Macro attività",
     "Micro attività", "Cliente", "Note", "Minuti Impiegati"}

\* of the columns of a logbook row the model keeps those main() reads
process_logbook(df) ==
    IF df.none \/ IsEmpty(df)
    THEN [none |-> FALSE, cols |-> RequiredColumns, rows |-> <<>>]
    ELSE LET typed == [i \in DOMAIN df.rows |->
                          [Nome             |-> IF "Nome" \in df.cols THEN df.rows[i].Nome ELSE PyNone,
                           Data             |-> ParsedDate(df, df.rows[i]),
                           Reparto          |-> IF "Reparto" \in df.cols THEN df.rows[i].Reparto ELSE NoCol,
                           Reparto1         |-> IF "Reparto1" \in df.cols THEN df.rows[i].Reparto1 ELSE PyNone,
                           Macro_attivita   |-> IF "Macro attività" \in df.cols THEN df.rows[i].Macro_attivita ELSE PyNone,
                           Cliente          |-> IF "Cliente" \in df.cols THEN df.rows[i].Cliente ELSE NotAString,
                           Minuti_Impiegati |-> ParsedMinutes(df, df.rows[i]),
                           Mese             |-> ParsedMese(df, df.rows[i]),
                           MeseFormattato   |-> NoCol]]
         IN  [none |-> FALSE,
              cols |-> df.cols \cup RequiredColumns,
              rows |-> SelectSeq(typed, LAMBDA r : notna(r.Data))]

-----------------------------------------------------------------------------
(* main, src/app.py: the helpers *)

month_map ==
    <<"Gennaio", "Febbraio", "Marzo", "Aprile", "Maggio", "Giugno",
      "Luglio", "Agosto", "Settembre", "Ottobre", "Novembre", "Dicembre">>

extract_month_from_date(date) == IF date = NaT THEN PyNone ELSE month_map[date[2]]

\* mutant: a month label of the worksheet is kept
WithMeseFormattato_FromSource(df) ==
    IF "Data" \in df.cols
    THEN [df EXCEPT !.cols = df.cols \cup {"MeseFormattato"},
                    !.rows = [i \in DOMAIN df.rows |->
                                [df.rows[i] EXCEPT
                                   !.MeseFormattato =
                                       IF df.rows[i].Mese \notin {"", PyNone}
                                       THEN df.rows[i].Mese
                                       ELSE extract_month_from_date(df.rows[i].Data)]]]
    ELSE df

\* lines 136-137
WithMeseFormattato(df) ==
    IF "Data" \in df.cols
    THEN [df EXCEPT !.cols = df.cols \cup {"MeseFormattato"},
                    !.rows = [i \in DOMAIN df.rows |->
                                [df.rows[i] EXCEPT
                                   !.MeseFormattato = extract_month_from_date(df.rows[i].Data)]]]
    ELSE df

\* lines 129-132: dict(zip(mapping_df['Cliente Map'], mapping_df['Cliente'])),
\* a later row replacing an earlier one with the same key
client_map_of(df) ==
    IF ~df.none /\ ~IsEmpty(df) /\ "Cliente" \in df.cols /\ "Cliente Map" \in df.cols
    THEN [k \in {df.rows[i].Cliente_Map : i \in DOMAIN df.rows} |->
             df.rows[CHOOSE i \in DOMAIN df.rows :
                        /\ df.rows[i].Cliente_Map = k
                        /\ \A j \in DOMAIN df.rows : df.rows[j].Cliente_Map = k => j <= i].Cliente]
    ELSE [k \in {} |-> <<>>]

\* mutant: the map is not consulted
MappedClient_Identity(client_map, cl) == cl

\* line 270: client_map.get(cl, cl)
MappedClient(client_map, cl) == IF cl \in DOMAIN client_map THEN client_map[cl] ELSE cl

RECURSIVE ParensBalanced(_, _)
\* the '(' and ')' of a pattern pair up (else re.compile raises re.error)
ParensBalanced(pat, depth) ==
    IF pat = <<>> THEN depth = 0
    ELSE IF pat[1] = "(" THEN ParensBalanced(Tail(pat), depth + 1)
    ELSE IF pat[1] = ")" THEN depth > 0 /\ ParensBalanced(Tail(pat), depth - 1)
    ELSE ParensBalanced(Tail(pat), depth)

\* Series.str.contains(pat, case=False): a regular-expression search.  Of the
\* special characters the texts of the model hold '.', any character, and
\* '(' ')', a group.
str_contains(text, pat) ==
    LET literal == SelectSeq(pat, LAMBDA c : c \notin {"(", ")"})
    IN  \E k \in 1..(Len(text) - Len(literal) + 1) :
            \A j \in DOMAIN literal :
                literal[j] = "." \/ Lower(literal[j]) = Lower(text[k + j - 1])

NotFound == [outcome |-> "None", rows |-> <<>>]
Found(rows) == [outcome |-> "rows", rows |-> rows]
Raises == [outcome |-> "raise", rows |-> <<>>]

\* mutant: of the rows that match, only the first is returned
find_client_row_FirstOnly(df, client_name) ==
    IF df.none \/ IsEmpty(df) \/ "Cliente" \notin df.cols
    THEN NotFound
    ELSE LET exact == SelectSeq(df.rows, LAMBDA r : r.Cliente = client_name)
         IN  IF exact # <<>> THEN Found(<<exact[1]>>)
             ELSE IF ~ParensBalanced(client_name, 0) THEN Raises
             ELSE LET partial == SelectSeq(df.rows, LAMBDA r : str_contains(r.Cliente, client_name))
                  IN  IF partial # <<>> THEN Found(<<partial[1]>>) ELSE NotFound

find_client_row(df, client_name) ==
    IF df.none \/ IsEmpty(df) \/ "Cliente" \notin df.cols
    THEN NotFound
    ELSE LET exact == SelectSeq(df.rows, LAMBDA r : r.Cliente = client_name)
         IN  IF exact # <<>> THEN Found(exact)
             ELSE IF ~ParensBalanced(client_name, 0) THEN Raises
             ELSE LET partial == SelectSeq(df.rows, LAMBDA r : str_contains(r.Cliente, client_name))
                  IN  IF partial # <<>> THEN Found(partial) ELSE NotFound

RECURSIVE SumFun(_)
\* the sum of the values of a function with a finite domain
SumFun(f) ==
    IF DOMAIN f = {} THEN Zero
    ELSE LET x == CHOOSE x \in DOMAIN f : TRUE
         IN  RAdd(f[x], SumFun([y \in DOMAIN f \ {x} |-> f[y]]))

-----------------------------------------------------------------------------
(* main, src/app.py: the sidebar and the metric block.  lp is                *)
(* logbook_processed and s the record of the widgets' values.               *)

\* `x if x else None` of a multiselect's value
Opt(S) == IF S # {} THEN List(S) ELSE NoneList

\* lines 169-172
date_filtered_df(lp, s) ==
    filter_data(lp, s.start_date, s.end_date, NoneList, NoneList, NoneList, NoneList, NoneList)

\* line 174
active_clients(lp, s) ==
    LET d == date_filtered_df(lp, s)
    IN  IF ~IsEmpty(d) THEN {d.rows[i].Cliente : i \in DOMAIN d.rows} ELSE {}

\* lines 188-194
pre_filtered_df(lp, s) ==
    filter_data(lp, s.start_date, s.end_date, NoneList,
                Opt(s.selected_departments), Opt(s.selected_macro), NoneList,
                Opt(s.selected_clients))

\* line 196
active_collaborators(lp, s) ==
    LET d == pre_filtered_df(lp, s)
    IN  IF ~IsEmpty(d) THEN {d.rows[i].Nome : i \in DOMAIN d.rows} ELSE {}

\* mutant: the selected clients do not filter
filtered_df_AnyClient(lp, s) ==
    filter_data(lp, s.start_date, s.end_date, Opt(s.selected_collaborators),
                Opt(s.selected_departments), Opt(s.selected_macro), NoneList, NoneList)

\* lines 203-213
filtered_df(lp, s) ==
    filter_data(lp, s.start_date, s.end_date, Opt(s.selected_collaborators),
                Opt(s.selected_departments), Opt(s.selected_macro), NoneList,
                Opt(s.selected_clients))

\* mutant: without a selection no collaborator is taken
collaborators_for_costs_SelectedOnly(lp, s) == s.selected_collaborators

\* line 215
collaborators_for_costs(lp, s) ==
    IF s.selected_collaborators # {} THEN s.selected_collaborators ELSE active_collaborators(lp, s)

\* line 216
clients_for_revenue(lp, s) ==
    IF s.selected_clients # {} THEN s.selected_clients ELSE active_clients(lp, s)

\* lines 222-224
selected_months_for_calc(filtered) ==
    IF ~IsEmpty(filtered) /\ "MeseFormattato" \in filtered.cols
    THEN {filtered.rows[i].MeseFormattato : i \in DOMAIN filtered.rows} \ {PyNone}
    ELSE {}

\* df['Minuti Impiegati'].sum() / 60
HoursOf(df) ==
    RDiv(SumSeq([i \in DOMAIN df.rows |-> df.rows[i].Minuti_Impiegati]), Num(60))

\* line 230
total_hours(filtered) == HoursOf(filtered)

\* line 237
CostBlockRuns(collaborators, months, compensi) ==
    collaborators # {} /\ months # {} /\ ~IsEmpty(compensi)

\* mutant: every month column of the table is summed, touched or not
total_period_cost_AllMonths(compensi, collaborators, months) ==
    LET relevant == SelectSeq(compensi.rows,
                              LAMBDA r : compensi.index = "Collaboratore" /\ r.name \in collaborators)
    IN  SumFun([m \in compensi.cols |->
                   SumSeq([i \in DOMAIN relevant |-> relevant[i].cells[m]])])

\* lines 239-249
total_period_cost(compensi, collaborators, months) ==
    LET relevant == SelectSeq(compensi.rows,
                              LAMBDA r : compensi.index = "Collaboratore" /\ r.name \in collaborators)
    IN  SumFun([m \in {x \in months : x # PyNone /\ x \in compensi.cols} |->
                   SumSeq([i \in DOMAIN relevant |-> relevant[i].cells[m]])])

\* mutant: the hours of the filtered entries
total_company_hours_Filtered(lp, s, collaborators) == HoursOf(filtered_df(lp, s))

\* lines 252-257
total_company_hours(lp, s, collaborators) ==
    HoursOf(filter_data(lp, s.start_date, s.end_date, List(collaborators),
                        NoneList, NoneList, NoneList, NoneList))

\* mutant: without hours the whole cost is the hourly cost
average_hourly_cost_CostWithoutHours(cost, hours) ==
    IF hours.n > 0 THEN RDiv(cost, hours) ELSE cost

\* lines 259-262
average_hourly_cost(cost, hours) ==
    IF hours.n > 0 THEN RDiv(cost, hours) ELSE Zero

\* line 269
RevenueBlockRuns(months, clients, clienti) ==
    months # {} /\ clients # {} /\ ~IsEmpty(clienti)

\* lines 276-280: the cells of the touched months of the rows found
RowsRevenue(found, cols, months) ==
    SumFun([m \in {x \in months : x # PyNone /\ x \in cols} |->
               SumSeq([i \in DOMAIN found |-> convert_eu_to_number(found[i].cells[m])])])

\* mutant: the clients are looked up under the names of the logbook
total_revenue_Unmapped(clienti, client_map, clients, months) ==
    IF RevenueBlockRuns(months, clients, clienti)
    THEN SumFun([cl \in clients |->
                    LET client_row_data == find_client_row(clienti, cl)
                    IN  IF client_row_data.outcome = "rows"
                        THEN RowsRevenue(client_row_data.rows, clienti.cols, months)
                        ELSE Zero])
    ELSE Zero

\* lines 268-282
total_revenue(clienti, client_map, clients, months) ==
    IF RevenueBlockRuns(months, clients, clienti)
    THEN SumFun([cl \in clients |->
                    LET client_row_data == find_client_row(clienti, MappedClient(client_map, cl))
                    IN  IF client_row_data.outcome = "rows"
                        THEN RowsRevenue(client_row_data.rows, clienti.cols, months)
                        ELSE Zero])
    ELSE Zero

\* line 273 is outside any try: an exception of find_client_row ends main
RevenueRaises(clienti, client_map, clients, months) ==
    /\ RevenueBlockRuns(months, clients, clienti)
    /\ \E cl \in clients :
           find_client_row(clienti, MappedClient(client_map, cl)).outcome = "raise"

\* mutant: the cost is added to the revenue
margin_Added(revenue, cost) == RAdd(revenue, cost)

\* line 285
margin_of(revenue, cost) == RSub(revenue, cost)

\* line 286
margin_percentage_of(margin, revenue) ==
    IF revenue.n # 0 THEN RMul(RDiv(margin, revenue), Num(100)) ELSE Zero

\* lines 354-358: compensi_df.loc[collab_name, month_name] is a Series, and `not pd.isna(...)`
\* raises ValueError, when the index holds the name more than once
AmbiguousPay(compensi, collab_name, months) ==
    /\ compensi.index = "Collaboratore"
    /\ Cardinality({i \in DOMAIN compensi.rows : compensi.rows[i].name = collab_name}) > 1
    /\ \E m \in months : m \in compensi.cols

\* lines 350, 354-358
collab_total_pay_in_selected_months(compensi, collab_name, months) ==
    IF /\ compensi.index = "Collaboratore"
       /\ \E i \in DOMAIN compensi.rows : compensi.rows[i].name = collab_name
       /\ months # {}
    THEN LET row == compensi.rows[CHOOSE i \in DOMAIN compensi.rows :
                                     compensi.rows[i].name = collab_name]
         IN  SumFun([m \in {x \in months : x \in compensi.cols} |-> row.cells[m]])
    ELSE Zero

\* lines 361-366
collab_total_hours_in_period(lp, s, collab_name) ==
    HoursOf(filter_data(lp, s.start_date, s.end_date, List({collab_name}),
                        NoneList, NoneList, NoneList, NoneList))

\* lines 352, 368-369
collab_hourly_rate_in_period(pay, hours) ==
    IF hours.n > 0 THEN RDiv(pay, hours) ELSE Zero

\* lines 342-378: the row of one collaborator of the filtered entries
collab_summary_row(lp, compensi, s, filtered, months, collab_name) ==
    LET own == SelectSeq(filtered.rows, LAMBDA r : r.Nome = collab_name)
        hours_val == RDiv(SumSeq([i \in DOMAIN own |-> own[i].Minuti_Impiegati]), Num(60))
        pay == collab_total_pay_in_selected_months(compensi, collab_name, months)
        hours == collab_total_hours_in_period(lp, s, collab_name)
    IN  [Collaboratore   |-> collab_name,
         Compenso_Tot    |-> pay,
         Ore_Tot_Periodo |-> hours,
         Costo_Orario    |-> collab_hourly_rate_in_period(pay, hours),
         Ore_Filtrate    |-> hours_val,
         Clienti_Seguiti |-> Cardinality({own[i].Cliente : i \in DOMAIN own} \ {NotAString})]

\* lines 330-393: the rows of the summary table; "skipped" where the table is
\* not built, "raise" where building it ends in an exception
collab_summary_list(lp, compensi, s) ==
    LET filtered == filtered_df(lp, s)
        months == selected_months_for_calc(filtered)
        names == {filtered.rows[i].Nome : i \in DOMAIN filtered.rows} \ {PyNone}
    IN  IF IsEmpty(filtered) \/ IsEmpty(compensi)
        THEN [outcome |-> "skipped", rows |-> {}]
        ELSE IF \E n \in names : AmbiguousPay(compensi, n, months)
        THEN [outcome |-> "raise", rows |-> {}]
        ELSE [outcome |-> "rows",
              rows |-> {collab_summary_row(lp, compensi, s, filtered, months, n) : n \in names}]

\* lines 169-392: the locals of main after the metric block and the summary
Metrics(lp, clienti, compensi, mapping, s) ==
    LET filtered == filtered_df(lp, s)
        collaborators == collaborators_for_costs(lp, s)
        clients == clients_for_revenue(lp, s)
        months == selected_months_for_calc(filtered)
        hours == total_hours(filtered)
        runs == CostBlockRuns(collaborators, months, compensi)
        cost == IF runs THEN total_period_cost(compensi, collaborators, months) ELSE Zero
        company == IF runs THEN total_company_hours(lp, s, collaborators) ELSE Zero
        average == IF runs THEN average_hourly_cost(cost, company) ELSE Zero
        hours_cost == RMul(hours, average)
        revenue == total_revenue(clienti, client_map_of(mapping), clients, months)
        margin == margin_of(revenue, hours_cost)
    IN  [computed                  |-> TRUE,
         filtered_df               |-> filtered,
         collaborators_for_costs   |-> collaborators,
         clients_for_revenue       |-> clients,
         selected_months_for_calc  |-> months,
         total_hours               |-> hours,
         total_period_cost         |-> cost,
         total_company_hours       |-> company,
         average_hourly_cost       |-> average,
         filtered_hours_cost       |-> hours_cost,
         total_revenue             |-> revenue,
         margin                    |-> margin,
         margin_percentage         |-> margin_percentage_of(margin, revenue),
         collab_summary_list       |-> collab_summary_list(lp, compensi, s)]

\* the metric block ends in an exception
MetricsRaise(lp, clienti, compensi, mapping, s) ==
    \/ "Minuti Impiegati" \notin filtered_df(lp, s).cols
    \/ RevenueRaises(clienti, client_map_of(mapping), clients_for_revenue(lp, s),
                     selected_months_for_calc(filtered_df(lp, s)))

-----------------------------------------------------------------------------
(* filter_data called on its own: the tables and arguments of the calls *)

MaxFilterRows == 2

FD1 == <<2024, 3, 5>>
FD2 == <<2024, 3, 20>>
FD3 == <<2024, 4, 2>>

\* a base row and the rows that differ from it in one field
FilterRowShapes ==
    LET base == [Nome |-> "A", Data |-> FD2, dept |-> "r1", macro |-> "m1", Cliente |-> <<"X">>]
    IN  {base,
         [base EXCEPT !.Nome = "B"],
         [base EXCEPT !.Data = FD1],
         [base EXCEPT !.Data = FD3],
         [base EXCEPT !.Data = NaT],
         [base EXCEPT !.dept = "r2"],
         [base EXCEPT !.macro = "m2"],
         [base EXCEPT !.Cliente = <<"Y">>]}

\* which department columns the table has
DeptSchemas == {"Reparto1", "Reparto", "both", "neither"}

CommonCols == {"Nome", "Data", "Macro attività", "Cliente", "Minuti Impiegati"}

SchemaCols(schema) ==
    CommonCols \cup (CASE schema = "Reparto1" -> {"Reparto1"}
                       [] schema = "Reparto"  -> {"Reparto"}
                       [] schema = "both"     -> {"Reparto", "Reparto1"}
                       [] OTHER               -> {})

OtherDept(d) == IF d = "r1" THEN "r2" ELSE "r1"

FilterRow(shape, schema) ==
    [Nome             |-> shape.Nome,
     Data             |-> shape.Data,
     Reparto          |-> IF schema \in {"Reparto", "both"} THEN shape.dept ELSE NoCol,
     Reparto1         |-> CASE schema = "Reparto1" -> shape.dept
                            [] schema = "both"     -> OtherDept(shape.dept)
                            [] OTHER               -> NoCol,
     Macro_attivita   |-> shape.macro,
     Cliente          |-> shape.Cliente,
     Minuti_Impiegati |-> [n |-> 60, d |-> 1],
     MeseFormattato   |-> NoCol]

FilterTables ==
    {[none |-> FALSE,
      cols |-> SchemaCols(schema),
      rows |-> [i \in DOMAIN shapes |-> FilterRow(shapes[i], schema)]] :
        schema \in DeptSchemas, shapes \in SeqsUpTo(FilterRowShapes, MaxFilterRows)}

FilterPeriods == {<<FD1, FD2>>, <<FD2, FD2>>, <<NoDate, NoDate>>}

\* a selector: not passed, the empty list, or a list
Selectors(values) == {NoneList, List({})} \cup {List(S) : S \in (SUBSET values) \ {{}}}

NoArgs ==
    [df |-> NoneDF, start_date |-> NoDate, end_date |-> NoDate,
     collaborators |-> NoneList, departments |-> NoneList,
     macro_activities |-> NoneList, micro_activities |-> NoneList,
     clients |-> NoneList]

-----------------------------------------------------------------------------
(* Values of the variables a run has not set yet *)

NoSheet ==
    [reachable |-> FALSE, Logbook |-> NoneDF, Clienti |-> NoneDF,
     Compensi |-> NoneDF, Mappa |-> NoneDF]

NoSel ==
    [start_date |-> NoDate, end_date |-> NoDate,
     selected_clients |-> {}, selected_departments |-> {},
     selected_macro |-> {}, selected_collaborators |-> {}]

NoKpi == [computed |-> FALSE]

MainIdle ==
    /\ sheet = NoSheet
    /\ logbook_df = NoneDF
    /\ clienti_df = NoneDF
    /\ compensi_df = NoneDF
    /\ mapping_df = NoneDF
    /\ logbook_processed = NoneDF
    /\ sel = NoSel
    /\ kpi = NoKpi

FilterIdle ==
    /\ f_df = NoneDF
    /\ f_args = NoArgs
    /\ f_out = NoneDF

\* no amount, no text, no value
Unset == [unset |-> TRUE]
NoText == <<"<no text>">>

CurrencyIdle == cur = [amount |-> Unset, text |-> NoText, value |-> Unset]

-----------------------------------------------------------------------------
(* The Google Sheets of the model *)

MaxEntries == 2
MaxCompRows == 2
MaxRevRows == 2

\* the texts of the cells
T_empty == <<>>
T_05_03_2024 == <<"0", "5", "/", "0", "3", "/", "2", "0", "2", "4">>
T_02_04_2024 == <<"0", "2", "/", "0", "4", "/", "2", "0", "2", "4">>
T_2024_03_05 == <<"2", "0", "2", "4", "-", "0", "3", "-", "0", "5">>
T_05m03m2024 == <<"0", "5", "-", "0", "3", "-", "2", "0", "2", "4">>
T_03_25_2024 == <<"0", "3", "/", "2", "5", "/", "2", "0", "2", "4">>
T_2024s03s05 == <<"2", "0", "2", "4", "/", "0", "3", "/", "0", "5">>
T_31_02_2024 == <<"3", "1", "/", "0", "2", "/", "2", "0", "2", "4">>
T_neg30 == <<"-", "3", "0">>
T_120 == <<"1", "2", "0">>
T_90 == <<"9", "0">>
T_60 == <<"6", "0">>
T_Acme == <<"A", "c", "m", "e">>
T_AcmeSrl == <<"A", "c", "m", "e", " ", "S", "r", "l">>
T_acme_lower == <<"a", "c", "m", "e">>
T_Beta == <<"B", "e", "t", "a">>
T_Zed == <<"Z", "e", "d">>
T_OpenParen == <<"A", "c", "(">>
T_Dot == <<"A", ".", "m", "e">>
T_Group == <<"A", "(", "c", ")">>
T_GroupSrl == <<"A", "(", "c", ")", " ", "S", "r", "l">>
T_Bovo_Garden_Srl == <<"B", "o", "v", "o", " ", "G", "a", "r", "d", "e", "n", " ", "S", "r", "l">>
T_Flobflower == <<"F", "l", "o", "b", "f", "l", "o", "w", "e", "r">>
T_ACOS_MEDICA == <<"A", "C", "O", "S", " ", "M", "E", "D", "I", "C", "A">>
T_Acos_Medica == <<"A", "c", "o", "s", " ", "M", "e", "d", "i", "c", "a">>
T_300 == <<"3", "0", "0">>
T_200 == <<"2", "0", "0">>
T_Euro150 == <<"€", " ", "1", "5", "0">>
T_1c5 == <<"1", ",", "5">>
T_Euro1000 == <<"€", " ", "1", ".", "0", "0", "0", ",", "0", "0">>
T_500c50 == <<"5", "0", "0", ",", "5", "0">>
T_1p5 == <<"1", ".", "5">>
T_bad == <<"n", "/", "d">>

\* a worksheet of the logbook: the cells of the columns main() reads
LogbookRow(shape, schema) ==
    [Nome             |-> shape.Nome,
     Data             |-> shape.Data,
     Reparto          |-> IF schema \in {"Reparto", "both"} THEN shape.dept ELSE NoCol,
     Reparto1         |-> CASE schema = "Reparto1" -> shape.dept
                            [] schema = "both"     -> OtherDept(shape.dept)
                            [] OTHER               -> NoCol,
     Macro_attivita   |-> shape.macro,
     Cliente          |-> shape.Cliente,
     Minuti_Impiegati |-> shape.Minuti,
     Mese             |-> shape.Mese,
     MeseFormattato   |-> NoCol]

LogbookSheet(shapes, schema) ==
    [none |-> FALSE,
     cols |-> SchemaCols(schema) \cup {"Mese"},
     rows |-> [i \in DOMAIN shapes |-> LogbookRow(shapes[i], schema)]]

\* the same worksheet without the column col
DropColumn(df, col) == [df EXCEPT !.cols = @ \ {col}]

Entry(nome, data, dept, cliente, minuti) ==
    [Nome |-> nome, Data |-> data, dept |-> dept, macro |-> "m1",
     Cliente |-> cliente, Minuti |-> minuti, Mese |-> ""]

\* the entry with the cell mese in the column Mese
EntryOfMonth(e, mese) == [e EXCEPT !.Mese = mese]

\* a worksheet of the revenues
ClientiRow(cliente, actual, marzo, aprile) ==
    [Cliente |-> cliente, Actual |-> actual,
     cells |-> [m \in {"Marzo", "Aprile"} |-> IF m = "Marzo" THEN marzo ELSE aprile]]

ClientiSheet(cols, rows) ==
    [none |-> FALSE,
     cols |-> cols,
     rows |-> [i \in DOMAIN rows |->
                 [Cliente |-> rows[i].Cliente,
                  Actual  |-> IF "Actual" \in cols THEN rows[i].Actual ELSE NoCol,
                  cells   |-> [m \in cols \cap {"Marzo", "Aprile"} |-> rows[i].cells[m]]]]]

\* a worksheet of the compensations: header is the header of the name column
CompensiRow(name, marzo, aprile) ==
    [name |-> name,
     cells |-> [m \in {"Marzo", "Aprile"} |-> IF m = "Marzo" THEN marzo ELSE aprile]]

CompensiSheet(header, months, rows) ==
    [none |-> FALSE,
     cols |-> {header} \cup months,
     index |-> "RangeIndex",
     rows |-> [i \in DOMAIN rows |->
                 [name |-> rows[i].name,
                  cells |-> [m \in months |-> rows[i].cells[m]]]]]

\* a worksheet of the client name map
MappaSheet(cols, rows) == [none |-> FALSE, cols |-> cols, rows |-> rows]

Workbook(logbook, clienti, compensi, mappa) ==
    [reachable |-> TRUE, Logbook |-> logbook, Clienti |-> clienti,
     Compensi |-> compensi, Mappa |-> mappa]

\* the reference worksheets
BaseClienti ==
    ClientiSheet({"Cliente", "Actual", "Marzo", "Aprile"},
                 <<ClientiRow(T_Acme, "Actual", T_Euro1000, T_500c50),
                   ClientiRow(T_Beta, "Forecast", T_200, T_300)>>)

BaseCompensi ==
    CompensiSheet("Collaboratore", {"Marzo", "Aprile"},
                  <<CompensiRow("A", T_300, T_200), CompensiRow("B", T_Euro150, T_empty)>>)

\* (1) many logbooks, a few compensation worksheets
WideEntries ==
    {Entry("A", T_05_03_2024, "r1", T_Acme, T_90),
     Entry("A", T_02_04_2024, "r1", T_Acme, T_60),
     Entry("B", T_05_03_2024, "r1", T_Acme, T_120),
     Entry("B", T_05_03_2024, "r1", T_Beta, T_90),
     Entry("A", T_02_04_2024, "r1", T_Beta, T_90),
     Entry("A", T_05_03_2024, "r1", T_Acme, T_empty),
     Entry("B", T_05_03_2024, "r2", T_Acme, T_90)}

FewCompensi ==
    {BaseCompensi, CompensiSheet("Collaboratore", {"Marzo", "Aprile"}, <<>>)}

\* the logbooks of at most two entries, for the compensation worksheet
\* without rows
ShortLogbooks ==
    {<<>>} \cup {<<e>> : e \in WideEntries} \cup {<<e, f>> : e \in WideEntries, f \in WideEntries}

LogbookWorkbooks ==
    {Workbook(LogbookSheet(shapes, "Reparto1"), BaseClienti, BaseCompensi, NoneDF) :
        shapes \in SeqsUpTo(WideEntries, MaxEntries)}
    \cup {Workbook(LogbookSheet(shapes, "Reparto1"), BaseClienti, c, NoneDF) :
              shapes \in ShortLogbooks, c \in FewCompensi}

\* (2) many compensation worksheets, one logbook over two months
WideCompensi ==
    {CompensiSheet(header, months, rows) :
        header \in {"Collaboratore", "Collaboaratore", "Nome"},
        months \in {{"Marzo", "Aprile"}, {"Marzo"}},
        rows \in SeqsUpTo({CompensiRow("A", T_300, T_200), CompensiRow("A", T_1c5, T_bad),
                            CompensiRow("B", T_Euro150, T_empty), CompensiRow("B", T_300, T_200)},
                           MaxCompRows)}

CompensiWorkbooks ==
    {Workbook(LogbookSheet(<<Entry("A", T_05_03_2024, "r1", T_Acme, T_120),
                             Entry("A", T_02_04_2024, "r1", T_Acme, T_60)>>, "Reparto"),
              BaseClienti, c, NoneDF) : c \in WideCompensi}

\* (3) many revenue worksheets, logbooks of one entry with its client label
ClientLabels == {T_Acme, T_acme_lower, T_Zed, T_OpenParen, T_Dot, T_empty}

WideClienti ==
    {ClientiSheet(cols, rows) :
        cols \in {{"Cliente", "Actual", "Marzo", "Aprile"},
                  {"Cliente", "Marzo", "Aprile"},
                  {"Cliente", "Actual", "Aprile"}},
        rows \in SeqsUpTo({ClientiRow(T_Acme, "Actual", T_Euro1000, T_500c50),
                            ClientiRow(T_Acme, "Forecast", T_200, T_500c50),
                            ClientiRow(T_AcmeSrl, "Actual", T_1p5, T_500c50),
                            ClientiRow(T_AcmeSrl, "Actual", T_bad, T_500c50),
                            ClientiRow(T_Beta, "Actual", T_200, T_300)},
                           MaxRevRows)}

ClientiWorkbooks ==
    {Workbook(LogbookSheet(<<Entry("A", T_05_03_2024, "r1", label, T_120)>>, "Reparto1"),
              c, BaseCompensi, NoneDF) :
        label \in ClientLabels, c \in WideClienti}

\* (4) the client name map: no worksheet (the built-in table), a worksheet,
\* a worksheet without the two columns, a worksheet without rows
MappaSheets ==
    {NoneDF,
     MappaSheet({"Cliente", "Cliente Map"},
                <<[Cliente |-> T_Acme, Cliente_Map |-> T_Zed],
                  [Cliente |-> T_Beta, Cliente_Map |-> T_Zed],
                  [Cliente |-> T_Acme, Cliente_Map |-> T_Beta]>>),
     MappaSheet({"Alias", "Nome"}, <<[Cliente |-> NoCol, Cliente_Map |-> NoCol]>>),
     MappaSheet({"Cliente", "Cliente Map"}, <<>>)}

MappaWorkbooks ==
    {Workbook(LogbookSheet(<<Entry("A", T_05_03_2024, "r1", label, T_120)>>, "Reparto1"),
              ClientiSheet({"Cliente", "Actual", "Marzo"},
                           <<ClientiRow(T_Acme, "Actual", T_Euro1000, T_empty),
                             ClientiRow(T_Beta, "Actual", T_200, T_empty),
                             ClientiRow(named, "Actual", T_1p5, T_empty)>>),
              BaseCompensi, m) :
        label \in {T_Zed, T_Beta, T_ACOS_MEDICA, T_Acos_Medica, T_Bovo_Garden_Srl, T_Flobflower},
        named \in {T_ACOS_MEDICA, T_Acos_Medica, T_Bovo_Garden_Srl, T_Flobflower},
        m \in MappaSheets}

\* (4b) client labels with characters that are special in a regular
\* expression, and revenue rows whose names hold them
SpecialLabels == {T_Group, T_Dot, T_OpenParen}

SpecialClienti ==
    {ClientiSheet({"Cliente", "Actual", "Marzo"}, rows) :
        rows \in {<<ClientiRow(T_Acme, "Actual", T_Euro1000, T_empty)>>,
                  <<ClientiRow(T_GroupSrl, "Actual", T_200, T_empty)>>,
                  <<ClientiRow(T_GroupSrl, "Actual", T_200, T_empty),
                    ClientiRow(T_Acme, "Actual", T_Euro1000, T_empty)>>,
                  <<ClientiRow(T_Group, "Actual", T_300, T_empty),
                    ClientiRow(T_Acme, "Actual", T_Euro1000, T_empty)>>,
                  <<ClientiRow(T_Beta, "Actual", T_200, T_empty)>>}}

SpecialWorkbooks ==
    {Workbook(LogbookSheet(<<Entry("A", T_05_03_2024, "r1", label, T_120)>>, "Reparto1"),
              c, BaseCompensi, NoneDF) :
        label \in SpecialLabels, c \in SpecialClienti}

\* (4c) two client labels that resolve to one revenue row: a name and the
\* same name in lower case, a name and a label the map translates to it
SharedRowLogbooks ==
    {LogbookSheet(<<Entry("A", T_05_03_2024, "r1", T_Acme, T_120),
                    Entry("B", T_05_03_2024, "r1", T_acme_lower, T_60)>>, "Reparto1"),
     LogbookSheet(<<Entry("A", T_05_03_2024, "r1", T_Acme, T_120),
                    Entry("B", T_05_03_2024, "r1", T_Beta, T_60)>>, "Reparto1")}

SharedRowWorkbooks ==
    {Workbook(l,
              ClientiSheet({"Cliente", "Actual", "Marzo"},
                           <<ClientiRow(T_Acme, "Actual", T_Euro1000, T_empty),
                             ClientiRow(T_Zed, "Actual", T_200, T_empty)>>),
              BaseCompensi,
              MappaSheet({"Cliente", "Cliente Map"},
                         <<[Cliente |-> T_Acme, Cliente_Map |-> T_Beta],
                           [Cliente |-> T_Zed, Cliente_Map |-> T_Zed]>>)) :
        l \in SharedRowLogbooks}

\* (5) what fails to load, and logbooks without a valid row
BaseLogbook == LogbookSheet(<<Entry("A", T_05_03_2024, "r1", T_Acme, T_120)>>, "Reparto1")

FailingWorkbooks ==
    {[Workbook(BaseLogbook, BaseClienti, BaseCompensi, NoneDF) EXCEPT !.reachable = FALSE],
     Workbook(NoneDF, BaseClienti, BaseCompensi, NoneDF),
     Workbook(BaseLogbook, NoneDF, BaseCompensi, NoneDF),
     Workbook(BaseLogbook, BaseClienti, NoneDF, NoneDF),
     Workbook(LogbookSheet(<<>>, "Reparto1"), BaseClienti, BaseCompensi, NoneDF),
     Workbook(LogbookSheet(<<Entry("A", T_2024_03_05, "r1", T_Acme, T_120),
                             Entry("B", T_bad, "r1", T_Beta, T_60)>>, "Reparto1"),
              BaseClienti, BaseCompensi, NoneDF)}

\* (6) logbooks whose cells need normalizing: dates in each candidate format
\* and in none, durations that are no number or are negative, a month label
\* that is not the month of the date
RawEntries ==
    {Entry("A", T_05_03_2024, "r1", T_Acme, T_120),
     Entry("A", T_2024_03_05, "r1", T_Acme, T_90),
     Entry("A", T_05m03m2024, "r1", T_Acme, T_90),
     Entry("A", T_03_25_2024, "r1", T_Acme, T_90),
     Entry("A", T_2024s03s05, "r1", T_Acme, T_90),
     Entry("A", T_31_02_2024, "r1", T_Acme, T_90),
     Entry("A", T_bad, "r1", T_Acme, T_90),
     Entry("B", T_05_03_2024, "r1", T_Acme, T_neg30),
     Entry("B", T_05_03_2024, "r1", T_Acme, T_bad),
     EntryOfMonth(Entry("B", T_02_04_2024, "r1", T_Acme, T_60), "gennaio")}

RawLogbooks ==
    {LogbookSheet(shapes, "Reparto1") : shapes \in SeqsUpTo(RawEntries, MaxEntries)}
    \cup {DropColumn(LogbookSheet(<<Entry("A", T_05_03_2024, "r1", T_Acme, T_120),
                                    Entry("A", T_02_04_2024, "r1", T_Acme, T_60)>>, "Reparto1"),
                      col) : col \in {"Mese", "Minuti Impiegati", "Data"}}

RawWorkbooks == {Workbook(l, BaseClienti, BaseCompensi, NoneDF) : l \in RawLogbooks}

Workbooks ==
    LogbookWorkbooks \cup CompensiWorkbooks \cup ClientiWorkbooks
        \cup MappaWorkbooks \cup SpecialWorkbooks \cup SharedRowWorkbooks
        \cup FailingWorkbooks \cup RawWorkbooks

-----------------------------------------------------------------------------
(* Specification of main *)

Init ==
    /\ pc = "start"
    /\ sheet \in Workbooks
    /\ logbook_df = NoneDF
    /\ clienti_df = NoneDF
    /\ compensi_df = NoneDF
    /\ mapping_df = NoneDF
    /\ logbook_processed = NoneDF
    /\ sel = NoSel
    /\ kpi = NoKpi
    /\ FilterIdle
    /\ CurrencyIdle

\* line 104
LoadSheetsData ==
    /\ pc = "start"
    /\ LET loaded == load_sheets_data(sheet)
       IN  /\ logbook_df' = loaded.logbook_df
           /\ clienti_df' = loaded.clienti_df
           /\ compensi_df' = loaded.compensi_df
           /\ mapping_df' = loaded.mapping_df
    /\ pc' = "loaded"
    /\ UNCHANGED <<sheet, logbook_processed, sel, kpi>>
    /\ UNCHANGED filterVars
    /\ UNCHANGED currencyVars

\* mutant: only the logbook is looked at
LoadFailed_LogbookOnly == logbook_df.none

\* line 106
LoadFailed == logbook_df.none \/ clienti_df.none \/ compensi_df.none

\* lines 106-115: st.error and st.stop()
StopLoadError ==
    /\ pc = "loaded"
    /\ LoadFailed
    /\ pc' = "stopped_load_error"
    /\ UNCHANGED mainVars
    /\ UNCHANGED filterVars
    /\ UNCHANGED currencyVars

\* lines 134-137
ProcessLogbook ==
    /\ pc = "loaded"
    /\ ~LoadFailed
    /\ logbook_processed' = WithMeseFormattato(process_logbook(logbook_df))
    /\ pc' = "processed"
    /\ UNCHANGED <<sheet, logbook_df, clienti_df, compensi_df, mapping_df, sel, kpi>>
    /\ UNCHANGED filterVars
    /\ UNCHANGED currencyVars

\* lines 148-150: st.error and st.stop()
StopNoValidData ==
    /\ pc = "processed"
    /\ IsEmpty(logbook_processed)
    /\ pc' = "stopped_no_data"
    /\ UNCHANGED mainVars
    /\ UNCHANGED filterVars
    /\ UNCHANGED currencyVars

\* the dates the two date inputs offer: between min_date and max_date
LogbookDates == {logbook_processed.rows[i].Data : i \in DOMAIN logbook_processed.rows}

\* lines 176-201: the options of the multiselects
clients_options == {logbook_processed.rows[i].Cliente : i \in DOMAIN logbook_processed.rows}
departments_options ==
    IF "Reparto" \in logbook_processed.cols
    THEN {logbook_processed.rows[i].Reparto : i \in DOMAIN logbook_processed.rows}
    ELSE {logbook_processed.rows[i].Reparto1 : i \in DOMAIN logbook_processed.rows}
macro_options == {logbook_processed.rows[i].Macro_attivita : i \in DOMAIN logbook_processed.rows}
collaborators_options == {logbook_processed.rows[i].Nome : i \in DOMAIN logbook_processed.rows}

\* what the user may have set in the sidebar
Selections ==
    [start_date : LogbookDates, end_date : LogbookDates,
     selected_clients : SUBSET clients_options,
     selected_departments : SUBSET departments_options,
     selected_macro : SUBSET macro_options,
     selected_collaborators : SUBSET collaborators_options]

\* lines 165-167: st.sidebar.error and st.stop()
StopInvalidPeriod ==
    /\ pc = "processed"
    /\ ~IsEmpty(logbook_processed)
    /\ \E s \in Selections :
           /\ ~DateLE(s.start_date, s.end_date)
           /\ s.selected_clients = {} /\ s.selected_departments = {}
           /\ s.selected_macro = {} /\ s.selected_collaborators = {}
           /\ sel' = s
    /\ pc' = "stopped_period"
    /\ UNCHANGED <<sheet, logbook_df, clienti_df, compensi_df, mapping_df, logbook_processed, kpi>>
    /\ UNCHANGED filterVars
    /\ UNCHANGED currencyVars

\* lines 169-392: the metric block and the summary table, to the end of main
ComputeMetrics ==
    /\ pc = "processed"
    /\ ~IsEmpty(logbook_processed)
    /\ \E s \in Selections :
           /\ DateLE(s.start_date, s.end_date)
           /\ ~MetricsRaise(logbook_processed, clienti_df, compensi_df, mapping_df, s)
           /\ sel' = s
           /\ kpi' = Metrics(logbook_processed, clienti_df, compensi_df, mapping_df, s)
    /\ pc' = "done"
    /\ UNCHANGED <<sheet, logbook_df, clienti_df, compensi_df, mapping_df, logbook_processed>>
    /\ UNCHANGED filterVars
    /\ UNCHANGED currencyVars

\* lines 169-273: an exception leaves main before the metrics are shown
MetricsException ==
    /\ pc = "processed"
    /\ ~IsEmpty(logbook_processed)
    /\ \E s \in Selections :
           /\ DateLE(s.start_date, s.end_date)
           /\ MetricsRaise(logbook_processed, clienti_df, compensi_df, mapping_df, s)
           /\ sel' = s
    /\ pc' = "raised"
    /\ UNCHANGED <<sheet, logbook_df, clienti_df, compensi_df, mapping_df, logbook_processed, kpi>>
    /\ UNCHANGED filterVars
    /\ UNCHANGED currencyVars

Next ==
    \/ LoadSheetsData
    \/ StopLoadError
    \/ ProcessLogbook
    \/ StopNoValidData
    \/ StopInvalidPeriod
    \/ ComputeMetrics
    \/ MetricsException

Spec == Init /\ [][Next]_vars

-----------------------------------------------------------------------------
(* Properties of the metric block of main (Spec) *)

Done == pc = "done"

Stopped == pc \in {"stopped_load_error", "stopped_no_data", "stopped_period", "raised"}

\* the entry r of the processed logbook lies in the period of the sidebar
EntryInPeriod(r) == DateLE(sel.start_date, r.Data) /\ DateLE(r.Data, sel.end_date)

\* the department of an entry: the field Reparto where the logbook has it
EntryDept(r) == IF "Reparto" \in logbook_processed.cols THEN r.Reparto ELSE r.Reparto1

\* the entry r is in the period and in every selector that is set
EntryMatches(r) ==
    /\ EntryInPeriod(r)
    /\ sel.selected_collaborators = {} \/ r.Nome \in sel.selected_collaborators
    /\ sel.selected_departments = {} \/ EntryDept(r) \in sel.selected_departments
    /\ sel.selected_macro = {} \/ r.Macro_attivita \in sel.selected_macro
    /\ sel.selected_clients = {} \/ r.Cliente \in sel.selected_clients

Entries == logbook_processed.rows

MatchingEntries == {i \in DOMAIN Entries : EntryMatches(Entries[i])}

\* the month labels of the entries that match
TouchedMonths == {month_map[Entries[i].Data[2]] : i \in MatchingEntries}

\* the revenue of client cl in month m: the cells of the rows the resolver
\* finds for the mapped name
RevenueCell(cl, m) ==
    LET found == find_client_row(clienti_df, MappedClient(client_map_of(mapping_df), cl))
    IN  IF found.outcome = "rows" /\ m \in clienti_df.cols
        THEN SumSeq([i \in DOMAIN found.rows |-> convert_eu_to_number(found.rows[i].cells[m])])
        ELSE Zero

\* C1: after a run of the metric block, total_revenue is the sum over the
\* clients of clients_for_revenue (mapped, then resolved) and over the touched
\* months of the parsed cells; no row found or no such column adds zero.
C1_TotalRevenueIsDoubleSum ==
    Done =>
        /\ kpi.selected_months_for_calc = TouchedMonths
        /\ kpi.total_revenue =
               SumFun([cl \in kpi.clients_for_revenue |->
                          SumFun([m \in TouchedMonths |-> RevenueCell(cl, m)])])

C1_Witness ==
    /\ Done
    /\ Cardinality(kpi.clients_for_revenue) = 2
    /\ Cardinality(TouchedMonths) = 2
    /\ kpi.total_revenue.n # 0
    /\ \E cl \in kpi.clients_for_revenue :
           find_client_row(clienti_df, MappedClient(client_map_of(mapping_df), cl)).outcome = "None"

\* the compensation of collaborator c in month m in the table as loaded
Compensation(c, m) ==
    IF compensi_df.index = "Collaboratore" /\ m \in compensi_df.cols
    THEN SumSeq([i \in DOMAIN compensi_df.rows |->
                    IF compensi_df.rows[i].name = c THEN compensi_df.rows[i].cells[m] ELSE Zero])
    ELSE Zero

\* C2: total_period_cost is the sum of compensation[collaborator][month] over
\* collaborators_for_costs and the touched months (the month labels of the
\* filtered entries); a blank or non-numeric cell and a missing column count
\* as zero; it is zero without collaborators or with an empty table.
C2_TotalPeriodCostIsDoubleSum ==
    Done =>
        /\ kpi.total_period_cost =
               SumFun([c \in kpi.collaborators_for_costs |->
                          SumFun([m \in TouchedMonths |-> Compensation(c, m)])])
        /\ \A i \in DOMAIN compensi_df.rows : \A m \in DOMAIN compensi_df.rows[i].cells :
               /\ compensi_df.index = "Collaboratore"
               /\ sheet.Compensi.rows[i].cells[m] \in {T_empty, T_bad}
               => compensi_df.rows[i].cells[m] = Zero
        /\ kpi.collaborators_for_costs = {} \/ IsEmpty(compensi_df)
               => kpi.total_period_cost = Zero

\* the period spans two months, the filtered entries touch one of them, and
\* the collaborator is paid in the other one too
C2_Witness ==
    /\ Done
    /\ sel.start_date[2] # sel.end_date[2]
    /\ Cardinality(TouchedMonths) = 1
    /\ kpi.total_period_cost.n # 0
    /\ \E c \in kpi.collaborators_for_costs : \E m \in compensi_df.cols \ TouchedMonths :
           Compensation(c, m).n # 0

\* the hours of all the entries of the period of the collaborators of
\* collaborators_for_costs, whatever the other selectors
CompanyHours ==
    RDiv(SumSeq([i \in DOMAIN Entries |->
                    IF Entries[i].Nome \in kpi.collaborators_for_costs /\ EntryInPeriod(Entries[i])
                    THEN Entries[i].Minuti_Impiegati ELSE Zero]),
         Num(60))

\* C3 as stated: total_company_hours is that sum for every combination of inputs
C3_CompanyHoursForEveryInput == Done => kpi.total_company_hours = CompanyHours

\* C3: total_company_hours is the sum of minutes/60 over all the entries of
\* the period whose collaborator is in collaborators_for_costs when there are
\* such collaborators, the filtered entries touch a month and the compensation
\* table is not empty; otherwise it keeps its initial 0.
C3_CompanyHoursWhenCostBlockRuns ==
    Done =>
        kpi.total_company_hours =
            IF /\ kpi.collaborators_for_costs # {}
               /\ TouchedMonths # {}
               /\ ~IsEmpty(compensi_df)
            THEN CompanyHours
            ELSE Zero

C3_Witness ==
    /\ Done
    /\ sel.selected_departments # {}
    /\ TouchedMonths # {}
    /\ ~IsEmpty(compensi_df)
    /\ kpi.total_company_hours = CompanyHours
    /\ kpi.total_company_hours # kpi.total_hours

\* C4: average_hourly_cost is total_period_cost / total_company_hours when
\* total_company_hours > 0 and 0 otherwise; filtered_hours_cost is
\* total_hours * average_hourly_cost; total_hours is the minutes of the
\* filtered entries divided by 60.
C4_AverageAndFilteredHoursCost ==
    Done =>
        /\ kpi.total_hours =
               RDiv(SumSeq([i \in DOMAIN Entries |->
                               IF i \in MatchingEntries
                               THEN Entries[i].Minuti_Impiegati ELSE Zero]),
                    Num(60))
        /\ kpi.total_company_hours.n > 0 =>
               kpi.average_hourly_cost = RDiv(kpi.total_period_cost, kpi.total_company_hours)
        /\ kpi.total_company_hours.n <= 0 => kpi.average_hourly_cost = Zero
        /\ kpi.filtered_hours_cost = RMul(kpi.total_hours, kpi.average_hourly_cost)

C4_Witness ==
    /\ Done
    /\ kpi.total_company_hours.n > 0
    /\ kpi.average_hourly_cost.n > 0
    /\ kpi.total_hours.n > 0
    /\ kpi.total_hours # kpi.total_company_hours

\* C5: margin is total_revenue - filtered_hours_cost; margin_percentage is
\* margin / total_revenue * 100 when total_revenue is not 0, and 0 when it is.
C5_MarginAndPercentage ==
    Done =>
        /\ kpi.margin = RSub(kpi.total_revenue, kpi.filtered_hours_cost)
        /\ kpi.total_revenue.n # 0 =>
               kpi.margin_percentage = RMul(RDiv(kpi.margin, kpi.total_revenue), Num(100))
        /\ kpi.total_revenue.n = 0 => kpi.margin_percentage = Zero

\* no revenue and a cost: the margin is negative and the percentage 0
C5_Witness ==
    /\ Done
    /\ kpi.total_revenue.n = 0
    /\ kpi.filtered_hours_cost.n > 0
    /\ kpi.margin.n < 0
    /\ kpi.margin_percentage = Zero

AllMetricsZero ==
    /\ kpi.computed
    /\ kpi.total_hours = Zero
    /\ kpi.total_period_cost = Zero
    /\ kpi.filtered_hours_cost = Zero
    /\ kpi.total_revenue = Zero
    /\ kpi.margin = Zero
    /\ kpi.margin_percentage = Zero

LogbookWithoutRows == ~sheet.Logbook.none /\ sheet.Logbook.rows = <<>>

\* C6 as stated: over a logbook without rows the metrics are computed and are 0
C6_EmptyTableGivesZeroMetrics ==
    LogbookWithoutRows /\ (Done \/ Stopped) => AllMetricsZero

\* C6: over a logbook without rows main stops ("Nessun dato valido nel foglio
\* Logbook.") and computes no metric; over a logbook with rows of which none
\* is in the period and the selectors, hours, cost, revenue, margin and
\* margin_percentage are 0 and no exception is raised.
C6_EmptyTableStopsNoMatchGivesZero ==
    /\ LogbookWithoutRows /\ (Done \/ Stopped) =>
           pc \in {"stopped_load_error", "stopped_no_data"} /\ ~kpi.computed
    /\ Done /\ MatchingEntries = {} => AllMetricsZero
    /\ pc = "raised" => MatchingEntries # {}

C6_Witness ==
    /\ Done
    /\ MatchingEntries = {}
    /\ AllMetricsZero
    /\ kpi.collaborators_for_costs # {}
    /\ kpi.clients_for_revenue # {}
    /\ ~IsEmpty(compensi_df)
    /\ ~IsEmpty(clienti_df)

-----------------------------------------------------------------------------
(* Properties of process_logbook and of the loading (Spec) *)

\* process_logbook has returned
Processed == pc \in {"processed", "stopped_no_data", "stopped_period", "done", "raised"}

\* the cell of the column Data of row i of the logbook as loaded
RawDate(i) == IF "Data" \in logbook_df.cols THEN logbook_df.rows[i].Data ELSE NotAString

\* no candidate format parses the cell
Unparseable(cell) == \A k \in DOMAIN DateFormats : to_datetime_fmt(cell, DateFormats[k]) = NaT

\* C11: process_logbook excludes exactly the rows whose date no candidate
\* format parses: the output has the length of the input minus the number of
\* those rows.
C11_ExcludesExactlyUnparseable ==
    Processed =>
        Len(logbook_processed.rows) =
            Len(logbook_df.rows)
                - Cardinality({i \in DOMAIN logbook_df.rows : Unparseable(RawDate(i))})

\* C12: every cell that is a valid date in one of the candidate formats is
\* parsed to the date the first format that parses it gives: the dates of
\* the output are those dates, in the order of the rows.
C12_SameDateWhicheverFormat ==
    Processed =>
        [i \in DOMAIN logbook_processed.rows |-> logbook_processed.rows[i].Data] =
            SelectSeq([i \in DOMAIN logbook_df.rows |-> FirstFormatThatParses(RawDate(i), 1)],
                      LAMBDA d : d # NaT)

\* the rows of the logbook as loaded that process_logbook keeps
KeptRaw == SelectSeq(logbook_df.rows, LAMBDA r : ParsedDate(logbook_df, r) # NaT)

\* the cell is no number: blank, or a text float() rejects
NotANumber(cell) == cell = NotAString \/ ~PyFloat(cell).ok

\* C13: every entry process_logbook produces has minutes >= 0; a duration
\* that is missing or no number becomes 0 and its row is kept.
C13_MinutesNeverNegative ==
    Processed /\ ~IsEmpty(logbook_df) =>
        /\ Len(logbook_processed.rows) = Len(KeptRaw)
        /\ \A i \in DOMAIN logbook_processed.rows :
               /\ logbook_processed.rows[i].Minuti_Impiegati.n >= 0
               /\ "Minuti Impiegati" \notin logbook_df.cols \/ NotANumber(KeptRaw[i].Minuti_Impiegati)
                      => logbook_processed.rows[i].Minuti_Impiegati = Zero

\* C14: the month label of every entry, the key into the compensation and
\* revenue tables, is the Italian name of the month of the entry's parsed
\* date, whatever the column Mese of the worksheet says; the months the
\* metric block looks up are such labels.
C14_MonthLabelFromParsedDate ==
    /\ Processed =>
           \A i \in DOMAIN logbook_processed.rows :
               logbook_processed.rows[i].MeseFormattato =
                   month_map[logbook_processed.rows[i].Data[2]]
    /\ Done =>
           kpi.selected_months_for_calc =
               {month_map[kpi.filtered_df.rows[i].Data[2]] : i \in DOMAIN kpi.filtered_df.rows}

\* an entry of April that the worksheet labels 'gennaio' is looked up in Aprile
C14_Witness ==
    /\ Done
    /\ \E i \in DOMAIN kpi.filtered_df.rows :
           /\ kpi.filtered_df.rows[i].Mese = "gennaio"
           /\ kpi.filtered_df.rows[i].Data[2] = 4
    /\ kpi.selected_months_for_calc = {"Aprile"}

-----------------------------------------------------------------------------
(* Properties of the client resolution (Spec) *)

\* the text holds the label as a substring, whatever the case of the letters
ContainsLiteral(text, label) ==
    \E k \in 1..(Len(text) - Len(label) + 1) :
        \A j \in DOMAIN label : Lower(label[j]) = Lower(text[k + j - 1])

\* the revenue rows named exactly as the label; when there is none, the rows
\* whose name holds the label as a substring
SubstringRows(label) ==
    IF clienti_df.none THEN <<>>
    ELSE LET same == SelectSeq(clienti_df.rows, LAMBDA r : r.Cliente = label)
         IN  IF same # <<>> THEN same
             ELSE SelectSeq(clienti_df.rows, LAMBDA r : ContainsLiteral(r.Cliente, label))

\* the name under which the client cl of the logbook is looked up
LookedUp(cl) == MappedClient(client_map_of(mapping_df), cl)

\* C17: the revenue is summed over the rows named exactly as the label when
\* there is one, otherwise over every row whose name contains the label as a
\* case-insensitive substring.
C17_ExactElseSubstringRows ==
    Done =>
        kpi.total_revenue =
            SumFun([cl \in kpi.clients_for_revenue |->
                SumFun([m \in TouchedMonths \cap clienti_df.cols |->
                    SumSeq([i \in DOMAIN SubstringRows(LookedUp(cl)) |->
                               convert_eu_to_number(SubstringRows(LookedUp(cl))[i].cells[m])])])])

\* the metric block has reached the revenue lookup of the selection
RevenueLookedUp ==
    /\ pc \in {"done", "raised"}
    /\ "Minuti Impiegati" \in logbook_processed.cols
    /\ RevenueBlockRuns(selected_months_for_calc(filtered_df(logbook_processed, sel)),
                        clients_for_revenue(logbook_processed, sel), clienti_df)

\* C18: for a label that no revenue row equals or contains (also one with
\* '(', ')' or '.'), the lookup returns 'not found' without raising, and the
\* client adds zero to the revenue.
C18_UnresolvedLabelAddsZero ==
    RevenueLookedUp =>
        \A cl \in clients_for_revenue(logbook_processed, sel) :
            SubstringRows(LookedUp(cl)) = <<>> =>
                /\ pc = "done"
                /\ \A m \in TouchedMonths : RevenueCell(cl, m) = Zero

\* the workbook has no worksheet 'Mappa' and its other worksheets were read
NoMappingSource == sheet.reachable /\ sheet.Mappa.none

\* the name looked up for the client cl under the built-in table: the first
\* cell of the (last) row whose second cell is cl, else cl itself
DefaultTranslation(cl) ==
    IF \E i \in DOMAIN mapping_data : mapping_data[i][2] = cl
    THEN mapping_data[CHOOSE i \in DOMAIN mapping_data :
                         /\ mapping_data[i][2] = cl
                         /\ \A j \in DOMAIN mapping_data : mapping_data[j][2] = cl => j <= i][1]
    ELSE cl

\* the cells of month m of the rows the resolver returns for the name
ResolvedCells(name, m) ==
    LET found == find_client_row(clienti_df, name)
    IN  IF found.outcome = "rows" /\ m \in clienti_df.cols
        THEN SumSeq([i \in DOMAIN found.rows |-> convert_eu_to_number(found.rows[i].cells[m])])
        ELSE Zero

\* the revenue worksheet has a row of that name
RowNamed(name) == \E i \in DOMAIN clienti_df.rows : clienti_df.rows[i].Cliente = name

\* the cells of month m of the rows of that name
CellsOfRowsNamed(name, m) ==
    SumSeq([i \in DOMAIN clienti_df.rows |->
               IF clienti_df.rows[i].Cliente = name /\ m \in clienti_df.cols
               THEN convert_eu_to_number(clienti_df.rows[i].cells[m])
               ELSE Zero])

\* C19 as stated: without a mapping worksheet, a client named as the first
\* cell of a row of the built-in table ('ACOS MEDICA', 'Bovo Garden Srl') gets
\* the revenue of the rows named by the second cell ('Acos Medica',
\* 'Flobflower').
C19_FirstCellResolvesToSecond ==
    (Done /\ NoMappingSource) =>
        \A i \in DOMAIN mapping_data :
            (kpi.clients_for_revenue = {mapping_data[i][1]} /\ RowNamed(mapping_data[i][2])) =>
                kpi.total_revenue =
                    SumFun([m \in TouchedMonths |-> CellsOfRowsNamed(mapping_data[i][2], m)])

\* C19: without a mapping worksheet the built-in table is the client name
\* map, keyed by the second cell of its rows: a client named as a second cell
\* ('Acos Medica', 'Flobflower') is looked up under the first cell
\* ('ACOS MEDICA', 'Bovo Garden Srl'), every other client under its own name;
\* 'ACOS MEDICA' reaches the row 'Acos Medica' through the case-insensitive
\* step of the resolver, 'Bovo Garden Srl' does not reach a row 'Flobflower'.
C19_SecondCellTranslatedToFirst ==
    /\ (pc # "start" /\ NoMappingSource) =>
           /\ ~mapping_df.none
           /\ mapping_df.cols = {"Cliente", "Cliente Map"}
           /\ Len(mapping_df.rows) = Len(mapping_data)
           /\ \A i \in DOMAIN mapping_data :
                  /\ mapping_df.rows[i].Cliente = mapping_data[i][1]
                  /\ mapping_df.rows[i].Cliente_Map = mapping_data[i][2]
    /\ (Done /\ NoMappingSource) =>
           /\ kpi.total_revenue =
                  SumFun([cl \in kpi.clients_for_revenue |->
                      SumFun([m \in TouchedMonths |-> ResolvedCells(DefaultTranslation(cl), m)])])
           /\ (kpi.clients_for_revenue = {T_Flobflower} /\ RowNamed(T_Bovo_Garden_Srl)) =>
                  kpi.total_revenue =
                      SumFun([m \in TouchedMonths |-> CellsOfRowsNamed(T_Bovo_Garden_Srl, m)])
           /\ (kpi.clients_for_revenue = {T_ACOS_MEDICA} /\ RowNamed(T_Acos_Medica)) =>
                  kpi.total_revenue =
                      SumFun([m \in TouchedMonths |-> CellsOfRowsNamed(T_Acos_Medica, m)])
           /\ (kpi.clients_for_revenue = {T_Bovo_Garden_Srl} /\ RowNamed(T_Flobflower)) =>
                  kpi.total_revenue = Zero

C19_Witness ==
    /\ Done
    /\ NoMappingSource
    /\ kpi.clients_for_revenue = {T_Flobflower}
    /\ RowNamed(T_Bovo_Garden_Srl)
    /\ ~RowNamed(T_Flobflower)
    /\ kpi.total_revenue = Rat(3, 2)

-----------------------------------------------------------------------------
(* Properties of the stops of main (Spec) *)

\* the workbook could not be opened, or one of the three worksheets could
\* not be read
TableMissing ==
    \/ ~sheet.reachable
    \/ sheet.Logbook.none
    \/ sheet.Clienti.none
    \/ sheet.Compensi.none

\* the worksheet of the time entries was read and normalizing leaves no row
NoValidEntry ==
    /\ ~TableMissing
    /\ \A i \in DOMAIN sheet.Logbook.rows :
           \/ "Data" \notin sheet.Logbook.cols
           \/ to_datetime_dmy(sheet.Logbook.rows[i].Data) = NaT

\* no metric was computed and none is shown
NothingComputed == kpi = [computed |-> FALSE] /\ sel = NoSel

\* C20: when the logbook, the revenue or the compensation table failed to
\* load, main stops with the load error; when the logbook has no valid row
\* after normalization, main stops with 'no valid data'; in both cases no
\* metric is computed, not even as zero.
C20_NotComputableStopsMain ==
    /\ (pc # "start" /\ TableMissing) =>
           /\ pc \in {"loaded", "stopped_load_error"}
           /\ NothingComputed
    /\ (pc # "start" /\ NoValidEntry) =>
           /\ pc \in {"loaded", "processed", "stopped_no_data"}
           /\ NothingComputed
    /\ pc = "stopped_load_error" => TableMissing
    /\ pc = "stopped_no_data" => NoValidEntry

\* a logbook with rows of which none is valid stops main
C20_Witness ==
    /\ pc = "stopped_no_data"
    /\ Len(sheet.Logbook.rows) > 0
    /\ NothingComputed

-----------------------------------------------------------------------------
(* Properties of the revenue table as loaded (Spec) *)

\* the three worksheets were read and load_sheets_data has returned
Loaded == pc # "start" /\ ~TableMissing

\* the rows of the revenue worksheet marked 'Actual', without the mark
ActualSourceRows ==
    LET marked == SelectSeq(sheet.Clienti.rows, LAMBDA r : r.Actual = "Actual")
    IN  [i \in DOMAIN marked |-> [marked[i] EXCEPT !.Actual = NoCol]]

\* the revenue worksheet without the rows not marked 'Actual' where it has
\* the column, as it is where it has not
ActualSource ==
    IF "Actual" \in sheet.Clienti.cols
    THEN [none |-> FALSE, cols |-> sheet.Clienti.cols \ {"Actual"}, rows |-> ActualSourceRows]
    ELSE sheet.Clienti

\* the cells of month m of the rows of table df the resolver returns for name
ResolvedCellsIn(df, name, m) ==
    LET found == find_client_row(df, name)
    IN  IF found.outcome = "rows" /\ m \in df.cols
        THEN SumSeq([i \in DOMAIN found.rows |-> convert_eu_to_number(found.rows[i].cells[m])])
        ELSE Zero

\* C21 as stated: every row of the revenue table as loaded is a row marked
\* 'Actual' in the worksheet.
C21_OnlyRowsMarkedActual ==
    Loaded =>
        Len(clienti_df.rows) =
            Cardinality({i \in DOMAIN sheet.Clienti.rows : sheet.Clienti.rows[i].Actual = "Actual"})

\* C21: where the revenue worksheet has the column 'Actual', the revenue
\* table as loaded holds exactly the rows whose cell is 'Actual' and
\* total_revenue is summed over those rows only; where the worksheet has no
\* such column, every row is in the table.
C21_ActualRowsWhereColumnExists ==
    /\ Loaded =>
           /\ clienti_df = ActualSource
           /\ "Actual" \notin clienti_df.cols
           /\ "Actual" \in sheet.Clienti.cols => clienti_df.rows = ActualSourceRows
           /\ "Actual" \notin sheet.Clienti.cols => Len(clienti_df.rows) = Len(sheet.Clienti.rows)
    /\ Done =>
           kpi.total_revenue =
               SumFun([cl \in kpi.clients_for_revenue |->
                   SumFun([m \in TouchedMonths |-> ResolvedCellsIn(ActualSource, LookedUp(cl), m)])])

\* a forecast row of a client of the selection is left out of a revenue
\* that is not zero
C21_Witness ==
    /\ Done
    /\ kpi.total_revenue.n # 0
    /\ \E i \in DOMAIN sheet.Clienti.rows :
           /\ sheet.Clienti.rows[i].Actual = "Forecast"
           /\ sheet.Clienti.rows[i].Cliente \in kpi.clients_for_revenue
    /\ Len(clienti_df.rows) < Len(sheet.Clienti.rows)

-----------------------------------------------------------------------------
(* Properties of the summary of the collaborators (Spec) *)

\* the collaborators of the entries that match the selection
MatchingCollaborators == {Entries[i].Nome : i \in MatchingEntries}

\* the hours of collaborator c over the entries of the set I
HoursOver(c, I) ==
    RDiv(SumSeq([i \in DOMAIN Entries |->
                    IF i \in I /\ Entries[i].Nome = c THEN Entries[i].Minuti_Impiegati ELSE Zero]),
         Num(60))

\* the entries of the period, whatever the selectors
PeriodEntries == {i \in DOMAIN Entries : EntryInPeriod(Entries[i])}

\* the compensation of collaborator c over the touched months
PayOver(c) == SumFun([m \in TouchedMonths |-> Compensation(c, m)])

\* C22: the summary has exactly one row for each collaborator of the
\* filtered entries, with the hours of the collaborator's entries of the
\* period, the compensation over the touched months divided by those hours
\* (0 when the hours are 0), and the hours and the number of clients of the
\* collaborator's filtered entries.
C22_OneSummaryRowPerCollaborator ==
    Done =>
        /\ kpi.collab_summary_list.outcome # "raise"
        /\ {r.Collaboratore : r \in kpi.collab_summary_list.rows} = MatchingCollaborators
        /\ Cardinality(kpi.collab_summary_list.rows) = Cardinality(MatchingCollaborators)
        /\ \A r \in kpi.collab_summary_list.rows :
               /\ r.Ore_Tot_Periodo = HoursOver(r.Collaboratore, PeriodEntries)
               /\ r.Costo_Orario =
                      IF r.Ore_Tot_Periodo = Zero THEN Zero
                      ELSE RDiv(PayOver(r.Collaboratore), r.Ore_Tot_Periodo)
               /\ r.Ore_Filtrate = HoursOver(r.Collaboratore, MatchingEntries)
               /\ r.Clienti_Seguiti =
                      Cardinality({Entries[i].Cliente :
                                      i \in {j \in MatchingEntries :
                                                Entries[j].Nome = r.Collaboratore}})

-----------------------------------------------------------------------------
(* Properties of the revenue of the clients of the selection (Spec) *)

\* C23: the blank client label adds nothing to total_revenue: the revenue is
\* the sum over the other clients of clients_for_revenue, whatever rows the
\* revenue table holds.
C23_BlankClientAddsNoRevenue ==
    (Done /\ T_empty \in kpi.clients_for_revenue) =>
        kpi.total_revenue =
            SumFun([cl \in kpi.clients_for_revenue \ {T_empty} |->
                       SumFun([m \in TouchedMonths |-> RevenueCell(cl, m)])])

\* the rows of the revenue table that the resolver returns for client cl
ResolvedRowIndexes(cl) ==
    LET found == find_client_row(clienti_df, LookedUp(cl))
    IN  IF found.outcome = "rows"
        THEN {i \in DOMAIN clienti_df.rows :
                 \E k \in DOMAIN found.rows : found.rows[k] = clienti_df.rows[i]}
        ELSE {}

\* the rows some client of clients_for_revenue resolves to
ContributingRows == UNION {ResolvedRowIndexes(cl) : cl \in kpi.clients_for_revenue}

\* C24: every revenue row's amount of a touched month is in total_revenue at
\* most once, also when several clients of clients_for_revenue resolve to
\* the row: the revenue is the sum over the rows resolved, each taken once.
C24_EachRowCountedOnce ==
    Done =>
        kpi.total_revenue =
            SumFun([i \in ContributingRows |->
                       SumFun([m \in TouchedMonths \cap clienti_df.cols |->
                                  convert_eu_to_number(clienti_df.rows[i].cells[m])])])

-----------------------------------------------------------------------------
(* Properties of the populations of the hours (Spec) *)

\* a <= b on rationals
RLeq(a, b) == a.n * b.d <= b.n * a.d

\* the entries total_company_hours is summed over
CompanyPopulation ==
    {i \in DOMAIN Entries :
        EntryInPeriod(Entries[i]) /\ Entries[i].Nome \in kpi.collaborators_for_costs}

\* no entry has negative minutes and no compensation cell is negative
NothingNegative ==
    /\ \A i \in DOMAIN Entries : Entries[i].Minuti_Impiegati.n >= 0
    /\ compensi_df.index = "Collaboratore" =>
           \A i \in DOMAIN compensi_df.rows :
               \A m \in DOMAIN compensi_df.rows[i].cells : compensi_df.rows[i].cells[m].n >= 0

\* C25 as stated: the filtered entries are among the entries of
\* total_company_hours, and without negative minutes and compensations
\* total_hours <= total_company_hours and filtered_hours_cost <=
\* total_period_cost, for every selection.
C25_FilteredWithinCompanyHours ==
    Done =>
        /\ MatchingEntries \subseteq CompanyPopulation
        /\ NothingNegative =>
               /\ RLeq(kpi.total_hours, kpi.total_company_hours)
               /\ RLeq(kpi.filtered_hours_cost, kpi.total_period_cost)

\* C25: the filtered entries are among the entries of the period whose
\* collaborator is in collaborators_for_costs; without negative minutes and
\* compensations filtered_hours_cost <= total_period_cost, and total_hours <=
\* total_company_hours where the compensation table is not empty; where it
\* is empty total_company_hours is 0 whatever total_hours is.
C25_FilteredWithinCompanyPopulation ==
    Done =>
        /\ MatchingEntries \subseteq CompanyPopulation
        /\ sel.selected_collaborators # {} =>
               kpi.collaborators_for_costs = sel.selected_collaborators
        /\ NothingNegative =>
               /\ RLeq(kpi.filtered_hours_cost, kpi.total_period_cost)
               /\ ~IsEmpty(compensi_df) => RLeq(kpi.total_hours, kpi.total_company_hours)
               /\ IsEmpty(compensi_df) => kpi.total_company_hours = Zero

\* no collaborator is selected, another selector narrows the entries
C25_Witness ==
    /\ Done
    /\ NothingNegative
    /\ sel.selected_collaborators = {}
    /\ sel.selected_clients # {}
    /\ kpi.total_hours.n > 0
    /\ kpi.total_hours # kpi.total_company_hours
    /\ RLeq(kpi.total_hours, kpi.total_company_hours)
    /\ kpi.filtered_hours_cost # kpi.total_period_cost
    /\ kpi.filtered_hours_cost.n > 0

-----------------------------------------------------------------------------
(* Specification of filter_data as a function of its arguments *)

InitFilter ==
    /\ pc = "filter_idle"
    /\ f_df \in FilterTables
    /\ f_args = NoArgs
    /\ f_out = NoneDF
    /\ MainIdle
    /\ CurrencyIdle

\* one call filter_data(f_df, ...) by a caller holding the table f_df
FilterDataCall ==
    /\ pc = "filter_idle"
    /\ \E period \in FilterPeriods,
          collaborators \in Selectors({"A", "B"}),
          departments \in Selectors({"r1"}),
          macro_activities \in Selectors({"m1"}),
          clients \in Selectors({<<"X">>}) :
         LET filtered == filter_data(f_df, period[1], period[2], collaborators,
                                     departments, macro_activities, NoneList, clients)
         IN  /\ f_args' = [df |-> f_df,
                           start_date |-> period[1], end_date |-> period[2],
                           collaborators |-> collaborators,
                           departments |-> departments,
                           macro_activities |-> macro_activities,
                           micro_activities |-> NoneList,
                           clients |-> clients]
             /\ f_out' = filtered
             /\ f_df' = CallerFrameAfterFilter(f_df, filtered)
    /\ pc' = "filter_returned"
    /\ UNCHANGED mainVars
    /\ UNCHANGED currencyVars

NextFilter == FilterDataCall

SpecFilter == InitFilter /\ [][NextFilter]_vars

-----------------------------------------------------------------------------
(* Specification of the currency conversions as functions of their argument *)

MaxCents == 120
MaxTextLen == 3

T_Euro1234c56 == <<"€", " ", "1", ".", "2", "3", "4", ",", "5", "6">>
T_1234567c89 == <<"1", ".", "2", "3", "4", ".", "5", "6", "7", ",", "8", "9">>

\* amounts with two decimals: every one up to MaxCents hundredths, and some
\* with one and with two thousands separators
Amounts ==
    {Rat(k, 100) : k \in 1..MaxCents}
        \cup {Rat(k, 100) : k \in {99999, 100000, 123450, 123456, 99999999, 100000000, 123456789}}

CurrencyAlphabet == {"€", " ", "1", "0", ".", ",", "x", "-"}

\* what a cell of the revenue worksheet may hold
CurrencyTexts ==
    SeqsUpTo(CurrencyAlphabet, MaxTextLen)
        \cup {NotAString, T_Euro1234c56, T_1234567c89, T_Euro1000, T_500c50, T_bad}

InitCurrency ==
    /\ \/ /\ pc = "currency_amount"
          /\ \E x \in Amounts \cup {NoneNumber} :
                 cur = [amount |-> x, text |-> NoText, value |-> Unset]
       \/ /\ pc = "currency_text"
          /\ \E t \in CurrencyTexts :
                 cur = [amount |-> Unset, text |-> t, value |-> Unset]
    /\ MainIdle
    /\ FilterIdle

\* format_currency(cur.amount)
FormatCurrencyCall ==
    /\ pc = "currency_amount"
    /\ cur' = [cur EXCEPT !.text = format_currency(cur.amount)]
    /\ pc' = "currency_text"
    /\ UNCHANGED mainVars
    /\ UNCHANGED filterVars

\* convert_eu_to_number(cur.text)
ConvertEuToNumberCall ==
    /\ pc = "currency_text"
    /\ cur' = [cur EXCEPT !.value = convert_eu_to_number(cur.text)]
    /\ pc' = "currency_value"
    /\ UNCHANGED mainVars
    /\ UNCHANGED filterVars

NextCurrency ==
    \/ FormatCurrencyCall
    \/ ConvertEuToNumberCall

SpecCurrency == InitCurrency /\ [][NextCurrency]_vars

-----------------------------------------------------------------------------
(* Properties of filter_data (SpecFilter) *)

FilterReturned == pc = "filter_returned"

\* the call names a period and the table has the date column
PeriodCall ==
    /\ FilterReturned
    /\ f_args.start_date # NoDate
    /\ f_args.end_date # NoDate
    /\ "Data" \in f_args.df.cols

\* start_date <= date <= end_date, both ends included, and the date is not null
InPeriod(r) ==
    /\ r.Data # NaT
    /\ DateLE(f_args.start_date, r.Data)
    /\ DateLE(r.Data, f_args.end_date)

\* the department field of the table: the primary one, else the alternate one
DeptOf(r) == IF "Reparto" \in f_args.df.cols THEN r.Reparto ELSE r.Reparto1

\* r's field is a member of every selector that is provided and non-empty
InSelectors(r) ==
    /\ Active(f_args.collaborators) => r.Nome \in f_args.collaborators.items
    /\ Active(f_args.departments) => DeptOf(r) \in f_args.departments.items
    /\ Active(f_args.macro_activities) => r.Macro_attivita \in f_args.macro_activities.items
    /\ Active(f_args.clients) => r.Cliente \in f_args.clients.items

NoSelectorActive ==
    /\ ~Active(f_args.collaborators)
    /\ ~Active(f_args.departments)
    /\ ~Active(f_args.macro_activities)
    /\ ~Active(f_args.clients)

InputRows == f_args.df.rows

\* C7: with a period and no selector, filter_data returns exactly the input
\* rows whose date is not null and lies in [start_date, end_date], both ends
\* included, in input order; a selector passed as the empty list restricts
\* nothing, exactly as a selector that is not passed.
C7_PeriodOnlyAndEmptySelectors ==
    (PeriodCall /\ NoSelectorActive) =>
        f_out.rows = RowsAt(InputRows, {i \in DOMAIN InputRows : InPeriod(InputRows[i])}, 1)

\* C7 witness: a call with an empty-list selector on a table with a row on the
\* last day of the period (kept) and a row outside the period (dropped).
C7_Witness ==
    /\ PeriodCall
    /\ NoSelectorActive
    /\ f_args.clients = List({})
    /\ f_args.collaborators = NoneList
    /\ Len(InputRows) = 2
    /\ Len(f_out.rows) = 1
    /\ f_out.rows[1].Data = f_args.end_date

\* the table has a field for every selector
AllSelectorFields ==
    /\ {"Nome", "Macro attività", "Cliente"} \subseteq f_args.df.cols
    /\ {"Reparto", "Reparto1"} \cap f_args.df.cols # {}

\* the rows returned when only one selector of the call is passed
OnlyCollaborators ==
    filter_data(f_args.df, f_args.start_date, f_args.end_date, f_args.collaborators, NoneList, NoneList, NoneList, NoneList)
OnlyDepartments ==
    filter_data(f_args.df, f_args.start_date, f_args.end_date, NoneList, f_args.departments, NoneList, NoneList, NoneList)
OnlyMacro ==
    filter_data(f_args.df, f_args.start_date, f_args.end_date, NoneList, NoneList, f_args.macro_activities, NoneList, NoneList)
OnlyClients ==
    filter_data(f_args.df, f_args.start_date, f_args.end_date, NoneList, NoneList, NoneList, NoneList, f_args.clients)

\* C8: the selectors compose by intersection: the result is exactly the rows
\* in the period whose field is a member of each provided non-empty selector,
\* and it is the intersection of the results of each selector applied alone.
C8_SelectorsIntersect ==
    (PeriodCall /\ AllSelectorFields) =>
        /\ f_out.rows = RowsAt(InputRows,
                               {i \in DOMAIN InputRows :
                                    InPeriod(InputRows[i]) /\ InSelectors(InputRows[i])}, 1)
        /\ Range(f_out.rows) = Range(OnlyCollaborators.rows) \cap Range(OnlyDepartments.rows)
                                 \cap Range(OnlyMacro.rows) \cap Range(OnlyClients.rows)

\* C8 witness: all four selectors are non-empty, one row passes them all and
\* another row, in the period, fails one of them.
C8_Witness ==
    /\ PeriodCall
    /\ AllSelectorFields
    /\ Active(f_args.collaborators)
    /\ Active(f_args.departments)
    /\ Active(f_args.macro_activities)
    /\ Active(f_args.clients)
    /\ Len(f_out.rows) = 1
    /\ \E i \in DOMAIN InputRows : InPeriod(InputRows[i]) /\ ~InSelectors(InputRows[i])

C10_AlternateDepartmentField ==
    (/\ PeriodCall
     /\ "Reparto1" \in f_args.df.cols
     /\ "Reparto" \notin f_args.df.cols
     /\ Active(f_args.departments)) =>
        f_out.rows = RowsAt(InputRows,
                            {i \in DOMAIN InputRows :
                                 /\ InPeriod(InputRows[i])
                                 /\ Active(f_args.collaborators) => InputRows[i].Nome \in f_args.collaborators.items
                                 /\ Active(f_args.macro_activities) => InputRows[i].Macro_attivita \in f_args.macro_activities.items
                                 /\ Active(f_args.clients) => InputRows[i].Cliente \in f_args.clients.items
                                 /\ InputRows[i].Reparto1 \in f_args.departments.items}, 1)

\* C10 witness: only Reparto1 exists, the department selector is the only one,
\* and it keeps one row of the period and drops another.
C10_Witness ==
    /\ PeriodCall
    /\ "Reparto1" \in f_args.df.cols
    /\ "Reparto" \notin f_args.df.cols
    /\ Active(f_args.departments)
    /\ ~Active(f_args.collaborators)
    /\ ~Active(f_args.macro_activities)
    /\ ~Active(f_args.clients)
    /\ Len(f_out.rows) = 1
    /\ f_out.rows[1].Reparto1 \in f_args.departments.items
    /\ \E i \in DOMAIN InputRows :
           InPeriod(InputRows[i]) /\ InputRows[i].Reparto1 \notin f_args.departments.items


-----------------------------------------------------------------------------
(* Properties of the currency conversions (SpecCurrency) *)

\* convert_eu_to_number has returned for a text that was given to it
Converted == pc = "currency_value" /\ cur.amount = Unset

\* the text without any currency symbol and without surrounding blanks
WithoutSymbol(t) == Strip(SelectSeq(t, LAMBDA c : c # "€"))

\* the text that is parsed: with a ',' the '.' are dropped and the ',' is
\* the decimal point
DecimalText(t) ==
    LET bare == WithoutSymbol(t)
    IN  IF \E i \in DOMAIN bare : bare[i] = ","
        THEN [i \in DOMAIN SelectSeq(bare, LAMBDA c : c # ".") |->
                 IF SelectSeq(bare, LAMBDA c : c # ".")[i] = "," THEN "."
                 ELSE SelectSeq(bare, LAMBDA c : c # ".")[i]]
        ELSE bare

\* C15: convert_eu_to_number returns for every argument: for a string the
\* number parsed from the text without currency symbol and surrounding blanks,
\* where with a ',' every '.' is removed and ',' is the decimal point
\* ('€ 1.234,56' gives 1234.56); 0 for a non-string, for the empty string and
\* for a text that does not parse
C15_ConvertEuToNumberTotal ==
    Converted =>
        /\ cur.value # Unset
        /\ cur.text = NotAString => cur.value = Zero
        /\ cur.text = <<>> => cur.value = Zero
        /\ cur.text # NotAString =>
               cur.value = IF PyFloat(DecimalText(cur.text)).ok
                           THEN PyFloat(DecimalText(cur.text)).val
                           ELSE Zero
        /\ cur.text = T_Euro1234c56 => cur.value = Rat(123456, 100)
        /\ cur.text = T_1234567c89 => cur.value = Rat(123456789, 100)
        /\ cur.text = T_bad => cur.value = Zero

C15_Witness ==
    /\ Converted
    /\ cur.text = T_Euro1234c56
    /\ cur.value = Rat(123456, 100)

T_1234c50Euro == <<"1", ".", "2", "3", "4", ",", "5", "0", " ", "€">>

\* format_currency then convert_eu_to_number have run on a positive amount
RoundTripped ==
    /\ pc = "currency_value"
    /\ cur.amount # Unset
    /\ cur.amount # NoneNumber
    /\ cur.amount.n > 0

\* the text is digits in groups of three separated by '.', then ',', two
\* digits, a blank and the currency symbol
EuropeanLayout(t) ==
    /\ Len(t) >= 6
    /\ t[Len(t)] = "€"
    /\ t[Len(t) - 1] = " "
    /\ IsDigit(t[Len(t) - 2])
    /\ IsDigit(t[Len(t) - 3])
    /\ t[Len(t) - 4] = ","
    /\ IsDigit(t[1])
    /\ \A i \in 1..(Len(t) - 5) :
           IF (Len(t) - 4 - i) % 4 = 0 THEN t[i] = "." ELSE IsDigit(t[i])

\* C16: for every positive amount with two decimals,
\* convert_eu_to_number(format_currency(x)) = x, and the text of
\* format_currency has '.' between the thousands, ',' before the two decimals
\* and the currency symbol at the end (1234.5 gives '1.234,50 €')
C16_RoundTrip ==
    RoundTripped =>
        /\ cur.value = cur.amount
        /\ EuropeanLayout(cur.text)
        /\ cur.amount = Rat(123450, 100) => cur.text = T_1234c50Euro

C16_Witness ==
    /\ RoundTripped
    /\ cur.amount = Rat(123450, 100)
    /\ cur.text = T_1234c50Euro
    /\ cur.value = Rat(123450, 100)

-----------------------------------------------------------------------------
(* Properties of the compensation table as loaded (Spec) *)

\* digits in groups of three separated by '.', or digits alone
GroupedDigits(t) ==
    /\ t # <<>>
    /\ \A i \in DOMAIN t : IsDigit(t[i]) \/ t[i] = "."
    /\ (\E i \in DOMAIN t : t[i] = ".") =>
           \A i \in DOMAIN t : (t[i] = ".") <=> ((Len(t) - i + 1) % 4 = 0 /\ i > 1)

\* the text is an amount in the European convention: an optional '€', '.'
\* between the thousands, ',' before the decimals
EuropeanAmount(t) ==
    LET bare == WithoutSymbol(t)
        commas == {i \in DOMAIN bare : bare[i] = ","}
    IN  IF commas = {} THEN GroupedDigits(bare)
        ELSE /\ Cardinality(commas) = 1
             /\ LET c == CHOOSE i \in commas : TRUE
                IN  /\ GroupedDigits(SubSeq(bare, 1, c - 1))
                    /\ c < Len(bare)
                    /\ \A i \in (c + 1)..Len(bare) : IsDigit(bare[i])

\* C26: every compensation cell written in the European convention is
\* loaded as the number convert_eu_to_number gives for its text; a blank cell
\* and a cell that does not parse are loaded as 0.
C26_CompensationOnRevenueScale ==
    (Loaded /\ compensi_df.index = "Collaboratore") =>
        \A i \in DOMAIN compensi_df.rows :
            \A m \in DOMAIN compensi_df.rows[i].cells :
                LET text == sheet.Compensi.rows[i].cells[m]
                IN  /\ EuropeanAmount(text) =>
                           compensi_df.rows[i].cells[m] = convert_eu_to_number(text)
                    /\ (text = <<>> \/ ~PyFloat(DecimalText(text)).ok) =>
                           compensi_df.rows[i].cells[m] = Zero

=============================================================================
